---- MODULE Spec2Model ----
(***************************************************************************)
(* A model of telloterm: the terminal dashboard (field registry, telemetry *)
(* ingestion, render loop), the keyboard loop, the joystick poll loop and  *)
(* the video relay, as written in src/telloterm.go and src/joystick.go.    *)
(***************************************************************************)
EXTENDS Integers, Sequences, FiniteSets, TLC

(***************************************************************************)
(* Bounds of the model.                                                    *)
(***************************************************************************)
\* joystick poll cycles followed
MaxCycles == 5
\* telemetry snapshots delivered on the flight-data stream
MaxSnapshots == 2
\* times startVideo gets as far as starting a player
MaxRelays == 2
\* video chunks delivered on one video channel
MaxChunks == 2
\* start-video requests counted (the count saturates there)
MaxStartVideo == 3
\* pictures the drone service receives in a session
MaxPics == 2
\* joystick poll cycles followed when every button and several sticks move
MaxPadCycles == 2

(***************************************************************************)
(* Program constants.                                                      *)
(***************************************************************************)
minWidth == 80
minHeight == 24
updatePeriodMs == 50
\* time.Millisecond, a time.Duration: nanoseconds
Millisecond == 1000000
keyPct == 33
deadZone == 2000

(***************************************************************************)
(* Fixed-width integer arithmetic (Go's int16).                            *)
(***************************************************************************)
ToInt16(x) ==
    LET m == x % 65536 IN IF m >= 32768 THEN m - 65536 ELSE m

Mul16(a, b) == ToInt16(a * b)

\* func intAbs(x int16) int16 : -x wraps for x = -32768
intAbs(x) == IF x < 0 THEN ToInt16(0 - x) ELSE x

(***************************************************************************)
(* Text: fmt.Sprintf's verbs as used by the program.                       *)
(***************************************************************************)
DigitChar == <<"0", "1", "2", "3", "4", "5", "6", "7", "8", "9">>

RECURSIVE NatToStr(_)
NatToStr(n) ==
    IF n < 10 THEN DigitChar[n + 1]
    ELSE NatToStr(n \div 10) \o DigitChar[(n % 10) + 1]

\* %d
Itoa(n) == IF n < 0 THEN "-" \o NatToStr(0 - n) ELSE NatToStr(n)

RECURSIVE Pow10(_)
Pow10(d) == IF d = 0 THEN 1 ELSE 10 * Pow10(d - 1)

RECURSIVE ZeroPad(_, _)
ZeroPad(s, d) == IF Len(s) >= d THEN s ELSE ZeroPad("0" \o s, d)

\* the mutant of FmtFixed: the division is made in integers and the decimals
\* are lost
FmtWhole(v, d) == Itoa(v \div Pow10(d))

\* %.<d>f of the number v / 10^d (v an integer: the value already rounded to
\* d decimals)
FmtFixed(v, d) ==
    LET a == IF v < 0 THEN 0 - v ELSE v
    IN  (IF v < 0 THEN "-" ELSE "")
           \o NatToStr(a \div Pow10(d)) \o "."
           \o ZeroPad(NatToStr(a % Pow10(d)), d)

RECURSIVE Spaces(_)
Spaces(n) == IF n <= 0 THEN "" ELSE " " \o Spaces(n - 1)

\* the degree sign (U+00B0) of the yaw field, in its initial value at line
\* 166 and in the format of line 502:
\* one character of the padded width, as Sprintf counts it.  TLC's state
\* store keeps only the ASCII characters of a string, so the sign is written
\* here as the one ASCII character "^", which no other field value contains
DegreeSign == "^"

\* func padString: Sprintf("%-<l>v", unpadded) pads on the right to at least
\* l characters and never cuts
padString(unpadded, l) == unpadded \o Spaces(l - Len(unpadded))

\* the mutant of boolToYN: the words instead of the letters
boolToYesNo(b) == IF b THEN "Yes" ELSE "No"

\* func boolToYN
boolToYN(b) == IF b THEN "Y" ELSE "N"

\* floor of the square root
RECURSIVE IsqrtFrom(_, _, _)
IsqrtFrom(x, lo, hi) ==
    IF lo >= hi THEN lo
    ELSE LET mid == (lo + hi + 1) \div 2
         IN  IF mid * mid <= x THEN IsqrtFrom(x, mid, hi)
             ELSE IsqrtFrom(x, lo, mid - 1)

Isqrt(x) == IsqrtFrom(x, 0, 46340)

\* Sprintf("%.1f", math.Sqrt(x)) for an integer-valued float x: NaN below 0,
\* else sqrt(x) rounded to the nearest tenth
FmtSqrt1(x) ==
    IF x < 0 THEN "NaN" ELSE FmtFixed((Isqrt(400 * x) + 1) \div 2, 1)

(***************************************************************************)
(* Joystick configurations (src/joystick.go).                              *)
(***************************************************************************)
Axes == {"axLeftX", "axLeftY", "axRightX", "axRightY"}

\* the buttons readJoystick tests, in the order it tests them
ButtonOrder == <<"btnL1", "btnL2", "btnSquare", "btnTriangle", "btnCircle", "btnX">>

\* the mutant of dualShock4Config: L2 on L1's bit
dualShock4ConfigL2OnL1 ==
    [axes    |-> [axLeftX |-> 0, axLeftY |-> 1, axRightX |-> 3, axRightY |-> 4],
     buttons |-> [btnX |-> 0, btnCircle |-> 1, btnTriangle |-> 2, btnSquare |-> 3,
                  btnL1 |-> 4, btnL2 |-> 4, btnL3 |-> 0, btnR1 |-> 5, btnR2 |-> 7]]

dualShock4Config ==
    [axes    |-> [axLeftX |-> 0, axLeftY |-> 1, axRightX |-> 3, axRightY |-> 4],
     buttons |-> [btnX |-> 0, btnCircle |-> 1, btnTriangle |-> 2, btnSquare |-> 3,
                  btnL1 |-> 4, btnL2 |-> 6, btnL3 |-> 0, btnR1 |-> 5, btnR2 |-> 7]]

dualShock4ConfigWin ==
    [axes    |-> [axLeftX |-> 0, axLeftY |-> 1, axRightX |-> 2, axRightY |-> 3],
     buttons |-> [btnX |-> 1, btnCircle |-> 2, btnTriangle |-> 3, btnSquare |-> 0,
                  btnL1 |-> 4, btnL2 |-> 6, btnL3 |-> 0, btnR1 |-> 5, btnR2 |-> 7]]

tflightHotasXConfig ==
    [axes    |-> [axLeftX |-> 4, axLeftY |-> 2, axRightX |-> 0, axRightY |-> 1],
     buttons |-> [btnR1 |-> 0, btnL1 |-> 1, btnR3 |-> 2, btnL3 |-> 3, btnSquare |-> 4,
                  btnX |-> 5, btnCircle |-> 6, btnTriangle |-> 7, btnR2 |-> 8,
                  btnL2 |-> 9]]

\* setupJoystick: the configuration the -jstype flag and runtime.GOOS select
JsConfigs == {dualShock4Config, dualShock4ConfigWin, tflightHotasXConfig}

\* the command readJoystick issues for a button's press edge ("" for none)
ButtonCommand(b) ==
    CASE b = "btnL1"       -> "Bounce"
      [] b = "btnL2"       -> "PalmLand"
      [] b = "btnSquare"   -> "TakePicture"
      [] b = "btnTriangle" -> "TakeOff"
      [] b = "btnX"        -> "Land"
      [] OTHER             -> ""

RECURSIVE Pow2(_)
Pow2(n) == IF n = 0 THEN 1 ELSE 2 * Pow2(n - 1)

\* mask & (1 << bit) != 0
BitSet(mask, bit) == (mask \div Pow2(bit)) % 2 = 1

\* the mutant of PressEdge: level-triggered, the previous state ignored
PressLevel(cur, prev, bit) == BitSet(cur, bit)

\* jsState.Buttons&(1<<b) != 0 && prevState.Buttons&(1<<b) == 0
PressEdge(cur, prev, bit) == BitSet(cur, bit) /\ ~BitSet(prev, bit)

\* the buttons of ButtonOrder[i..] that show a press edge, in test order
RECURSIVE EdgesFrom(_, _, _, _)
EdgesFrom(cfg, cur, prev, i) ==
    IF i > Len(ButtonOrder) THEN <<>>
    ELSE (IF PressEdge(cur, prev, cfg.buttons[ButtonOrder[i]])
          THEN <<ButtonOrder[i]>> ELSE <<>>)
         \o EdgesFrom(cfg, cur, prev, i + 1)

\* the drone commands of a sequence of pressed buttons (Circle has none)
RECURSIVE CommandsOf(_)
CommandsOf(bs) ==
    IF bs = <<>> THEN <<>>
    ELSE (IF ButtonCommand(Head(bs)) = "" THEN <<>> ELSE <<ButtonCommand(Head(bs))>>)
         \o CommandsOf(Tail(bs))

\* one stick component: the int16 conversion, the Y axes' "* -1", the dead zone
StickComponent(raw, negate) ==
    LET v == IF negate THEN Mul16(ToInt16(raw), -1) ELSE ToInt16(raw)
    IN  IF intAbs(v) < deadZone THEN 0 ELSE v

\* the StickMessage readJoystick builds from a device state
StickMessage(cfg, axisData) ==
    [Lx |-> StickComponent(axisData[cfg.axes.axLeftX], FALSE),
     Ly |-> StickComponent(axisData[cfg.axes.axLeftY], TRUE),
     Rx |-> StickComponent(axisData[cfg.axes.axRightX], FALSE),
     Ry |-> StickComponent(axisData[cfg.axes.axRightY], TRUE)]

(***************************************************************************)
(* The Field Registry (src/telloterm.go, const block and setupFields).     *)
(***************************************************************************)
\* the keys fHeight .. fNumFields-1, in iota order: the order displayDataFields
\* ranges over the array
FieldKeys ==
    <<"fHeight", "fBattery", "fWifiStrength", "fMaxHeight", "fLowBattThresh",
      "fWifiInterference", "fDerivedSpeed", "fGroundSpeed", "fFwdSpeed",
      "fLatSpeed", "fVertSpeed", "fBattLow", "fBattCrit", "fBattState",
      "fGroundVis", "fOvertemp", "fLightStrength", "fOnGround", "fHovering",
      "fFlying", "fFlyMode", "fCameraState", "fDroneFlyTimeLeft",
      "fDroneBattLeft", "fVelX", "fVelY", "fVelZ", "fPosX", "fPosY", "fPosZ",
      "fQatW", "fQatX", "fQatY", "fQatZ", "fTemp", "fRoll", "fPitch", "fYaw",
      "fHome", "fSSID", "fVersion">>

FieldSet == {FieldKeys[i] : i \in 1..Len(FieldKeys)}

\* a field as setupFields builds it: label text and position, value position,
\* width, placeholder value (colours left out)
Fld(lx, ly, lab, x, y, w, value) ==
    [lx |-> lx, ly |-> ly, lab |-> lab, x |-> x, y |-> y, w |-> w, value |-> value]

\* the zero value of the field struct: what an entry setupFields never assigns holds
ZeroField == Fld(0, 0, "", 0, 0, 0, "")

\* func setupFields
setupFields ==
    [k \in FieldSet |->
       CASE k = "fHeight"           -> Fld(8, 2, "Height:", 16, 2, 5, "?m")
         [] k = "fBattery"          -> Fld(34, 2, "Battery:", 43, 2, 4, "?%")
         [] k = "fWifiStrength"     -> Fld(61, 2, "WiFi:", 67, 2, 4, "?%")
         [] k = "fMaxHeight"        -> Fld(4, 3, "Max Height:", 16, 3, 5, "?m")
         [] k = "fDroneBattLeft"    -> Fld(34, 3, "Voltage:", 43, 3, 6, "?")
         [] k = "fWifiInterference" -> Fld(53, 3, "Interference:", 67, 3, 4, "?%")
         [] k = "fLowBattThresh"    -> Fld(24, 4, "Lo Batt Threshold:", 43, 4, 4, "?%")
         [] k = "fDerivedSpeed"     -> Fld(28, 6, "Derived Speed:", 43, 6, 7, "?m/s")
         [] k = "fVertSpeed"        -> Fld(51, 6, "Vertical Speed:", 67, 6, 7, "?m/s")
         [] k = "fGroundSpeed"      -> Fld(2, 7, "Ground Speed:", 16, 7, 5, "?m/s")
         [] k = "fFwdSpeed"         -> Fld(28, 7, "Forward Speed:", 43, 7, 5, "?m/s")
         [] k = "fLatSpeed"         -> Fld(52, 7, "Lateral Speed:", 67, 7, 5, "?m/s")
         [] k = "fBattLow"          -> Fld(3, 9, "Battery Low:", 16, 9, 5, "?")
         [] k = "fBattCrit"         -> Fld(25, 9, "Battery Critical:", 43, 9, 5, "?")
         [] k = "fBattState"        -> Fld(52, 9, "Battery State:", 67, 9, 5, "?")
         [] k = "fGroundVis"        -> Fld(1, 10, "Ground Visual:", 16, 10, 5, "?")
         [] k = "fOvertemp"         -> Fld(25, 10, "Over Temperature:", 43, 10, 5, "?")
         [] k = "fLightStrength"    -> Fld(51, 10, "Light Strength:", 67, 10, 5, "?")
         [] k = "fOnGround"         -> Fld(5, 11, "On Ground:", 16, 11, 5, "?")
         [] k = "fHovering"         -> Fld(33, 11, "Hovering:", 43, 11, 5, "?")
         [] k = "fFlying"           -> Fld(59, 11, "Flying:", 67, 11, 5, "?")
         [] k = "fCameraState"      -> Fld(2, 12, "Camera State:", 16, 12, 6, "?")
         [] k = "fFlyMode"          -> Fld(30, 12, "Flight Mode:", 43, 12, 5, "?")
         [] k = "fDroneFlyTimeLeft" -> Fld(49, 12, "Flight Remaining:", 67, 12, 6, "?")
         [] k = "fVelX"             -> Fld(4, 15, "X Velocity:", 16, 15, 8, "?")
         [] k = "fVelY"             -> Fld(31, 15, "Y Velocity:", 43, 15, 8, "?")
         [] k = "fVelZ"             -> Fld(55, 15, "Z Velocity:", 67, 15, 8, "?")
         [] k = "fPosX"             -> Fld(4, 16, "X Position:", 16, 16, 6, "?")
         [] k = "fPosY"             -> Fld(31, 16, "Y Position:", 43, 16, 6, "?")
         [] k = "fPosZ"             -> Fld(55, 16, "Z Position:", 67, 16, 6, "?")
         [] k = "fQatX"             -> Fld(8, 18, "X Quat:", 16, 18, 6, "?")
         [] k = "fQatY"             -> Fld(35, 18, "Y Quat:", 43, 18, 6, "?")
         [] k = "fQatZ"             -> Fld(59, 18, "Z Quat:", 67, 18, 6, "?")
         [] k = "fTemp"             -> Fld(10, 19, "Temp:", 16, 19, 6, "?")
         [] k = "fQatW"             -> Fld(35, 19, "W Quat:", 43, 19, 6, "?")
         [] k = "fYaw"              -> Fld(62, 19, "Yaw:", 67, 19, 6, "?" \o DegreeSign)
         [] k = "fHome"             -> Fld(33, 20, "Home Pos:", 43, 20, 5, "?")
         [] k = "fSSID"             -> Fld(10, 22, "SSID:", 16, 22, 20, "?")
         [] k = "fVersion"          -> Fld(57, 22, "Firmware:", 67, 22, 10, "?")
         [] OTHER                   -> ZeroField]

\* the values of the registry right after setupFields
InitialValues == [k \in FieldSet |-> setupFields[k].value]

(***************************************************************************)
(* tello.FlightData, the telemetry snapshot.  The float32 members          *)
(* (positions, quaternion) are held in millionths, the precision %f prints.*)
(***************************************************************************)
FD0 ==
    [Height |-> 0, BatteryPercentage |-> 0, WifiStrength |-> 0, MaxHeight |-> 0,
     LowBatteryThreshold |-> 0, WifiInterference |-> 0,
     NorthSpeed |-> 0, EastSpeed |-> 0, GroundSpeed |-> 0, VerticalSpeed |-> 0,
     BatteryLow |-> FALSE, BatteryCritical |-> FALSE, BatteryState |-> FALSE,
     DownVisualState |-> FALSE, OverTemp |-> FALSE, LightStrength |-> 0,
     OnGround |-> FALSE, DroneHover |-> FALSE, Flying |-> FALSE,
     FlyMode |-> 0, CameraState |-> 0, DroneFlyTimeLeft |-> 0,
     BatteryMilliVolts |-> 0,
     VelocityX |-> 0, VelocityY |-> 0, VelocityZ |-> 0,
     PositionX |-> 0, PositionY |-> 0, PositionZ |-> 0,
     QuaternionW |-> 0, QuaternionX |-> 0, QuaternionY |-> 0, QuaternionZ |-> 0,
     Temperature |-> 0, Yaw |-> 0, SSID |-> "", Version |-> ""]

\* the assignments of updateFields, in the order the code makes them
UpdateOrder ==
    <<"fHeight", "fBattery", "fWifiStrength", "fMaxHeight", "fLowBattThresh",
      "fWifiInterference", "fDerivedSpeed", "fGroundSpeed", "fFwdSpeed",
      "fLatSpeed", "fVertSpeed", "fBattLow", "fBattCrit", "fBattState",
      "fGroundVis", "fOvertemp", "fLightStrength", "fOnGround", "fHovering",
      "fFlying", "fFlyMode", "fCameraState", "fDroneFlyTimeLeft",
      "fDroneBattLeft", "fVelX", "fVelY", "fVelZ", "fPosX", "fPosY", "fPosZ",
      "fQatW", "fQatX", "fQatY", "fQatZ", "fTemp", "fYaw", "fHome", "fSSID",
      "fVersion">>

UpdatedSet == {UpdateOrder[i] : i \in 1..Len(UpdateOrder)}

\* math.Sqrt(float64(N*N) + float64(E*E)) printed with %.1f: the products are
\* int16 products, made before the conversion to float64
DerivedSpeedText(north, east) ==
    FmtSqrt1(Mul16(north, north) + Mul16(east, east))

\* the right-hand side of updateFields' assignment to fields[k].value
NewValue(k, newFd, homeSet) ==
    CASE k = "fHeight"           -> FmtFixed(newFd.Height, 1) \o "m"
      [] k = "fBattery"          -> Itoa(newFd.BatteryPercentage) \o "%"
      [] k = "fWifiStrength"     -> Itoa(newFd.WifiStrength) \o "%"
      [] k = "fMaxHeight"        -> Itoa(newFd.MaxHeight) \o "m"
      [] k = "fLowBattThresh"    -> Itoa(newFd.LowBatteryThreshold) \o "%"
      [] k = "fWifiInterference" -> Itoa(newFd.WifiInterference) \o "%"
      [] k = "fDerivedSpeed"     ->
             DerivedSpeedText(newFd.NorthSpeed, newFd.EastSpeed) \o "m/s"
      [] k = "fGroundSpeed"      -> Itoa(newFd.GroundSpeed) \o "m/s"
      [] k = "fFwdSpeed"         -> Itoa(newFd.NorthSpeed) \o "m/s"
      [] k = "fLatSpeed"         -> Itoa(newFd.EastSpeed) \o "m/s"
      [] k = "fVertSpeed"        -> Itoa(newFd.VerticalSpeed) \o "m/s"
      [] k = "fBattLow"          -> boolToYN(newFd.BatteryLow)
      [] k = "fBattCrit"         -> boolToYN(newFd.BatteryCritical)
      [] k = "fBattState"        -> boolToYN(newFd.BatteryState)
      [] k = "fGroundVis"        -> boolToYN(newFd.DownVisualState)
      [] k = "fOvertemp"         -> boolToYN(newFd.OverTemp)
      [] k = "fLightStrength"    -> Itoa(newFd.LightStrength)
      [] k = "fOnGround"         -> boolToYN(newFd.OnGround)
      [] k = "fHovering"         -> boolToYN(newFd.DroneHover)
      [] k = "fFlying"           -> boolToYN(newFd.Flying)
      [] k = "fFlyMode"          -> Itoa(newFd.FlyMode)
      [] k = "fCameraState"      -> Itoa(newFd.CameraState)
      [] k = "fDroneFlyTimeLeft" -> Itoa(newFd.DroneFlyTimeLeft)
      [] k = "fDroneBattLeft"    -> Itoa(newFd.BatteryMilliVolts) \o "mV"
      [] k = "fVelX"             -> Itoa(newFd.VelocityX) \o "cm/s"
      [] k = "fVelY"             -> Itoa(newFd.VelocityY) \o "cm/s"
      [] k = "fVelZ"             -> Itoa(newFd.VelocityZ) \o "cm/s"
      [] k = "fPosX"             -> FmtFixed(newFd.PositionX, 6)
      [] k = "fPosY"             -> FmtFixed(newFd.PositionY, 6)
      [] k = "fPosZ"             -> FmtFixed(newFd.PositionZ, 6)
      [] k = "fQatW"             -> FmtFixed(newFd.QuaternionW, 6)
      [] k = "fQatX"             -> FmtFixed(newFd.QuaternionX, 6)
      [] k = "fQatY"             -> FmtFixed(newFd.QuaternionY, 6)
      [] k = "fQatZ"             -> FmtFixed(newFd.QuaternionZ, 6)
      [] k = "fTemp"             -> Itoa(newFd.Temperature) \o "C"
      [] k = "fYaw"              -> Itoa(newFd.Yaw) \o DegreeSign
      [] k = "fHome"             -> IF homeSet THEN "Unset" ELSE "Set"
      [] k = "fSSID"             -> newFd.SSID
      [] k = "fVersion"          -> newFd.Version

\* the row updateFields appends to the flight-data log (the time column is the
\* wall clock, left symbolic)
LogLine(newFd) ==
    <<"time", FmtFixed(newFd.PositionX, 6), FmtFixed(newFd.PositionY, 6),
      FmtFixed(newFd.PositionZ, 6), Itoa(newFd.Yaw), FmtFixed(newFd.Height, 1)>>

\* func updateFields, its assignments to the registry taken together
updateFields(values, newFd, homeSet) ==
    [k \in FieldSet |->
       IF k \in UpdatedSet THEN NewValue(k, newFd, homeSet) ELSE values[k]]

\* tbprint over a field that shows text old followed by n older characters:
\* the cells the new text does not reach keep what they showed
StaleAfter(old, n, new) ==
    IF Len(old) + n > Len(new) THEN Len(old) + n - Len(new) ELSE 0

\* the text displayDataFields paints for field k
PaintedText(values, k) == padString(values[k], setupFields[k].w)

\* the tbprint calls of one displayDataFields pass: label and value of every
\* field
NumPrints == 2 * Len(FieldKeys)

(***************************************************************************)
(* State.                                                                  *)
(***************************************************************************)
VARIABLES
    \* the main thread and the process
    mainPc,       \* where func main is
    exited,       \* the process has ended
    fatal,        \* "" or the fatal condition that ended it (log.Fatal*)
    termboxOpen,  \* termbox.Init done and termbox.Close not yet called
    lastEv,       \* the event the keyboard loop handled last
    kbCmd,        \* the drone commands that event's handler issued, in order
    wideVideo,    \* var wideVideo
    videoMode,    \* the video-mode command last issued to the drone ("" for none)
    homeSet,      \* what drone.IsHomeSet() returns
    picsSaved,    \* the names drone.SaveAllPics was called with, in order
    numPics,      \* what drone.NumPics() returns
    flags,        \* the command line: -jsid, -jstype, -jstest, -fdlog; GOOS
    useJoystick,  \* var useJoystick
    termSize,     \* what termbox.Size() returned to checkTermSize
    startLog,     \* the start-up steps func main has taken, in order
    \* the registry, its lock and the ingestion goroutine
    fields,       \* fields[k].value
    fieldGen,     \* the number of the snapshot that last wrote fields[k].value
    mu,           \* fieldsMu: writer holds, a writer waits, readers holding
    ingPc,        \* where the ingestion goroutine is
    ingIdx,       \* the assignments of updateFields already made
    tmpFD,        \* the snapshot being applied
    nSnap,        \* snapshots received so far
    fdLogging,    \* var fdLogging
    fdRows,       \* the rows handed to fdLog after the header
    fdLogErrs,    \* the row writes that returned an error
    \* the readers of the registry: the render goroutine and the main thread
    rdPc,         \* where each reader's displayDataFields is
    obs,          \* the snapshot numbers a reader's pass has painted values of
    painted,      \* the text last painted for each field
    labels,       \* the fields whose label is painted
    paintIdx,     \* the tbprint calls each reader's pass has made so far
    stale,        \* the characters of earlier, longer texts still on the screen
                  \* to the right of each field's text
    noWriteSinceClear,  \* no registry value was written since the screen was cleared
    \* the video relay
    nRelay,       \* the times startVideo has started a player
    vrPc,         \* each relay's start-video goroutine
    vcPc,         \* each relay's byte-copy goroutine
    vchan,        \* each relay's video channel: chunks not yet taken
    vrecv,        \* the chunks each byte-copy loop has taken, in order
    vwritten,     \* the chunks each byte-copy loop has written to its player
    nStartVideo,  \* drone.StartVideo() calls, counted up to MaxStartVideo
    \* the joystick loop
    jsCfg,        \* var jsConfig
    jsTest,       \* readJoystick's parameter test
    jsPc,         \* where readJoystick is
    jsState,      \* jsState: AxisData and Buttons of the last read
    jsErr,        \* the last read returned an error
    prevState,    \* prevState.Buttons
    sm,           \* the stick message built in this cycle
    stickLast,    \* the message last sent on stickChan
    btnHist,      \* the button bitmask of every finished cycle
    cmdHist,      \* the drone commands of every finished cycle
    stickCount,   \* the sends on stickChan so far
    jsLog,        \* what this cycle has written to the log so far
    jsSleepNs,    \* the Duration of readJoystick's last time.Sleep, in ns
    lastGoodButtons, \* the Buttons of the last read of an earlier cycle that
                     \* returned no error (0 before the first)
    \* the flight log file
    fdFile        \* the rows that have reached the file (fdRows are the rows
                  \* handed to the csv.Writer, which buffers them)

mainVars == <<mainPc, exited, fatal, termboxOpen, lastEv, kbCmd, wideVideo, homeSet,
              picsSaved, numPics, flags, useJoystick, termSize, startLog, videoMode>>
regVars == <<fields, fieldGen, mu, ingPc, ingIdx, tmpFD, nSnap, fdLogging, fdRows,
             fdLogErrs>>
rdVars == <<rdPc, obs, painted, labels, paintIdx, stale, noWriteSinceClear>>
vidVars == <<nRelay, vrPc, vcPc, vchan, vrecv, vwritten, nStartVideo>>
jsVars == <<jsCfg, jsTest, jsPc, jsState, jsErr, prevState, sm, stickLast, btnHist,
            cmdHist, stickCount, jsLog, jsSleepNs, lastGoodButtons>>
vars == <<mainVars, regVars, rdVars, vidVars, jsVars, fdFile>>

Readers == {"render", "main"}

\* the calls func main has deferred (fdlogFile.Close, fdLog.Flush,
\* termbox.Close) run when main panics, which it does only before any
\* goroutine is started; log.Fatal* ends the process with os.Exit, which runs
\* none of them. The argument is the cause of the exit. (After main's return
\* they run one by one beside the goroutines: MainDeferTermboxClose,
\* MainDeferFlush, MainDeferFlushed, MainReturn.)
DeferredRun(f) == f \in {"termboxInit", "panic"}

\* the file after fdLog.Flush() with rows in the buffer: Flush returns
\* nothing and the program never reads fdLog.Error(), so that a write that
\* fails leaves the file with the rows written before the failure (none of
\* them, with a full volume) and nobody the wiser
FlushOutcomes(rows) == {SubSeq(rows, 1, n) : n \in 0..Len(rows)}
Relays == 1..MaxRelays

(***************************************************************************)
(* The joystick poll loop (src/joystick.go, readJoystick).                 *)
(***************************************************************************)
PhysAxes == 0..4

ZeroAxes == [a \in PhysAxes |-> 0]

\* raw axis readings at the ends of the 16-bit range and around the dead zone
AxisSamples == {-32768, -32767, -2001, -2000, -1999, 1999, 2000, 2001, 32767}

\* device states with one axis off centre, or all axes alike
AxisArrays ==
    {[ZeroAxes EXCEPT ![a] = v] : a \in PhysAxes, v \in AxisSamples}
        \cup {[a \in PhysAxes |-> v] : v \in AxisSamples}

\* button bitmasks: nothing, bit 0, bits 0 and 1, bit 4
ButtonMasks == {0, 1, 3, 16}

JsIdle ==
    /\ jsCfg = dualShock4Config
    /\ jsTest = FALSE
    /\ jsPc = "off"
    /\ jsState = [AxisData |-> ZeroAxes, Buttons |-> 0]
    /\ jsErr = FALSE
    /\ prevState = [AxisData |-> ZeroAxes, Buttons |-> 0]
    /\ sm = [Lx |-> 0, Ly |-> 0, Rx |-> 0, Ry |-> 0]
    /\ stickLast = <<>>
    /\ btnHist = <<>>
    /\ cmdHist = <<>>
    /\ stickCount = 0
    /\ jsLog = <<>>
    /\ jsSleepNs = 0
    /\ lastGoodButtons = 0

\* log.Printf("Error reading joystick: %v\n", err)
ReadLog(e) == IF e THEN <<"Error reading joystick">> ELSE <<>>

\* if test { log.Printf("JS: Lx: %d, Ly: %d, Rx: %d, Ry: %d\n", ...) }
StickLog(test, m) == IF test THEN <<<<"JS", m.Lx, m.Ly, m.Rx, m.Ry>>>> ELSE <<>>

\* the name a button's press is logged under in the test mode
ButtonName(b) ==
    CASE b = "btnL1"       -> "L1"
      [] b = "btnL2"       -> "L2"
      [] b = "btnSquare"   -> "Square"
      [] b = "btnTriangle" -> "Triangle"
      [] b = "btnCircle"   -> "Circle"
      [] b = "btnX"        -> "X"

\* if test { log.Println("<button> pressed") } of every pressed button
RECURSIVE PressLog(_)
PressLog(bs) ==
    IF bs = <<>> THEN <<>>
    ELSE <<ButtonName(Head(bs)) \o " pressed">> \o PressLog(Tail(bs))

\* the State of a Go zero value: AxisData is a nil slice
ZeroState == [AxisData |-> <<>>, Buttons |-> 0]

\* what js.Read() hands back. The joystick library is not among the sources
\* and readJoystick takes whatever State comes with an error: the zero
\* State, as Go functions hand back by convention, the State read last, or
\* any other State of the device
ReadStates(axisSet, maskSet, e, last) ==
    LET read == {[AxisData |-> a, Buttons |-> m] : a \in axisSet, m \in maskSet}
    IN  IF e THEN {ZeroState, last} \cup read ELSE read

\* jsState.AxisData has the four entries lines 178-181 index
HasAxes(cfg, st) ==
    {cfg.axes.axLeftX, cfg.axes.axLeftY, cfg.axes.axRightX, cfg.axes.axRightY}
        \subseteq DOMAIN st.AxisData

\* jsState, err = js.Read(); the error is logged and nothing else is done
\* about it; the stick message is built from jsState.AxisData and filtered.
\* With an AxisData that lacks an indexed entry the index expression of line
\* 178 panics in the goroutine: the process ends, no deferred call of main
\* is run
JsRead(axisSet, maskSet, errSet) ==
    /\ ~exited
    /\ jsPc = "read"
    /\ useJoystick
    /\ Len(btnHist) < MaxCycles
    /\ \E e \in errSet :
         \E st \in ReadStates(axisSet, maskSet, e, jsState) :
          /\ jsState' = st
          /\ jsErr' = e
          /\ IF HasAxes(jsCfg, st)
             THEN /\ sm' = StickMessage(jsCfg, st.AxisData)
                  /\ jsLog' = ReadLog(e) \o StickLog(jsTest, StickMessage(jsCfg, st.AxisData))
                  /\ jsPc' = IF jsTest THEN "buttons" ELSE "send"
                  /\ UNCHANGED <<exited, fatal>>
             ELSE /\ jsLog' = ReadLog(e)
                  /\ jsPc' = "panic"
                  /\ exited' = TRUE
                  /\ fatal' = "jsPanic"
                  /\ UNCHANGED sm
    /\ UNCHANGED <<jsCfg, jsTest, prevState, lastGoodButtons, stickLast, btnHist, cmdHist,
                   stickCount, jsSleepNs>>
    /\ UNCHANGED <<mainPc, termboxOpen, lastEv, kbCmd, wideVideo, videoMode, homeSet, picsSaved,
                   numPics, flags, useJoystick, termSize,
                   startLog>>
    /\ UNCHANGED <<regVars, rdVars, vidVars>>
    /\ UNCHANGED fdFile

\* js.Read() when setupJoystick has not run: js is a nil interface and the
\* call is a run-time panic
JsReadNoDevice ==
    /\ ~exited
    /\ jsPc = "read"
    /\ ~useJoystick
    /\ exited' = TRUE
    /\ fatal' = "panic"
    /\ UNCHANGED <<mainPc, termboxOpen, lastEv, kbCmd, wideVideo, videoMode, homeSet, picsSaved,
                   numPics, flags, useJoystick, termSize,
                   startLog>>
    /\ UNCHANGED <<regVars, rdVars, vidVars, jsVars>>
    /\ fdFile' \in IF exited' /\ DeferredRun(fatal') THEN FlushOutcomes(fdRows') ELSE {fdFile}

\* the mutant of JsSend: a message equal to the last one sent is not sent
JsSendOnChange ==
    /\ ~exited
    /\ jsPc = "send"
    /\ stickLast' = <<sm>>
    /\ stickCount' = IF stickLast = <<sm>> THEN stickCount ELSE stickCount + 1
    /\ jsPc' = "buttons"
    /\ UNCHANGED <<jsCfg, jsTest, jsState, jsErr, prevState, lastGoodButtons, sm, btnHist, cmdHist,
                   jsLog, jsSleepNs>>
    /\ UNCHANGED <<mainVars, regVars, rdVars, vidVars>>
    /\ UNCHANGED fdFile

\* stickChan <- sm
JsSend ==
    /\ ~exited
    /\ jsPc = "send"
    /\ stickLast' = <<sm>>
    /\ stickCount' = stickCount + 1
    /\ jsPc' = "buttons"
    /\ UNCHANGED <<jsCfg, jsTest, jsState, jsErr, prevState, lastGoodButtons, sm, btnHist, cmdHist,
                   jsLog, jsSleepNs>>
    /\ UNCHANGED <<mainVars, regVars, rdVars, vidVars>>
    /\ UNCHANGED fdFile

\* the mutant of JsButtons: prevState is overwritten as soon as one press edge
\* is found, so the buttons tested after it show no edge
JsButtonsFirstEdgeOnly ==
    /\ ~exited
    /\ jsPc = "buttons"
    /\ LET all == EdgesFrom(jsCfg, jsState.Buttons, prevState.Buttons, 1)
           edges == IF all = <<>> THEN <<>> ELSE <<Head(all)>>
       IN  /\ cmdHist' = Append(cmdHist, IF jsTest THEN <<>> ELSE CommandsOf(edges))
           /\ jsLog' = IF jsTest THEN jsLog \o PressLog(edges) ELSE jsLog
    /\ btnHist' = Append(btnHist, jsState.Buttons)
    /\ prevState' = jsState
    /\ lastGoodButtons' = IF jsErr THEN lastGoodButtons ELSE jsState.Buttons
    /\ jsPc' = "sleep"
    /\ UNCHANGED <<jsCfg, jsTest, jsState, jsErr, sm, stickLast,
                   stickCount, jsSleepNs>>
    /\ UNCHANGED <<mainVars, regVars, rdVars, vidVars>>
    /\ UNCHANGED fdFile

\* the mutant of JsButtons: the commands are issued in the test mode too
JsButtonsAlwaysDispatch ==
    /\ ~exited
    /\ jsPc = "buttons"
    /\ LET edges == EdgesFrom(jsCfg, jsState.Buttons, prevState.Buttons, 1)
       IN  /\ cmdHist' = Append(cmdHist, CommandsOf(edges))
           /\ jsLog' = IF jsTest THEN jsLog \o PressLog(edges) ELSE jsLog
    /\ btnHist' = Append(btnHist, jsState.Buttons)
    /\ prevState' = jsState
    /\ lastGoodButtons' = IF jsErr THEN lastGoodButtons ELSE jsState.Buttons
    /\ jsPc' = "sleep"
    /\ UNCHANGED <<jsCfg, jsTest, jsState, jsErr, sm, stickLast,
                   stickCount, jsSleepNs>>
    /\ UNCHANGED <<mainVars, regVars, rdVars, vidVars>>
    /\ UNCHANGED fdFile

\* the six press-edge tests, then prevState = jsState
JsButtons ==
    /\ ~exited
    /\ jsPc = "buttons"
    /\ LET edges == EdgesFrom(jsCfg, jsState.Buttons, prevState.Buttons, 1)
       IN  /\ cmdHist' = Append(cmdHist, IF jsTest THEN <<>> ELSE CommandsOf(edges))
           /\ jsLog' = IF jsTest THEN jsLog \o PressLog(edges) ELSE jsLog
    /\ btnHist' = Append(btnHist, jsState.Buttons)
    /\ prevState' = jsState
    /\ lastGoodButtons' = IF jsErr THEN lastGoodButtons ELSE jsState.Buttons
    /\ jsPc' = "sleep"
    /\ UNCHANGED <<jsCfg, jsTest, jsState, jsErr, sm, stickLast,
                   stickCount, jsSleepNs>>
    /\ UNCHANGED <<mainVars, regVars, rdVars, vidVars>>
    /\ UNCHANGED fdFile

\* time.Sleep(updatePeriodMs): the untyped constant becomes a time.Duration,
\* which counts nanoseconds
JsSleep ==
    /\ ~exited
    /\ jsPc = "sleep"
    /\ jsSleepNs' = updatePeriodMs
    /\ jsPc' = "read"
    /\ UNCHANGED <<jsCfg, jsTest, jsState, jsErr, prevState, lastGoodButtons, sm, stickLast, btnHist,
                   cmdHist, stickCount, jsLog>>
    /\ UNCHANGED <<mainVars, regVars, rdVars, vidVars>>
    /\ UNCHANGED fdFile

(***************************************************************************)
(* fieldsMu, a sync.RWMutex: Lock announces the writer, which shuts new     *)
(* readers out, and then waits for the readers inside to leave.            *)
(***************************************************************************)
MuFree == [writer |-> FALSE, pending |-> FALSE, readers |-> 0]

\* the mutant of CanRLock: a read lock that does not look at the writer
CanRLockAlways(m) == TRUE

\* RLock returns when no writer holds or waits for the lock
CanRLock(m) == ~m.writer /\ ~m.pending

\* the mutant of CanLock: a write lock that does not wait for the readers
CanLockIgnoringReaders(m) == ~m.writer

\* Lock returns when no reader and no writer holds the lock
CanLock(m) == ~m.writer /\ m.readers = 0

(***************************************************************************)
(* The telemetry ingestion goroutine (main, lines 262-270) and updateFields.*)
(***************************************************************************)
\* two snapshots that differ in every kind of field
FDa ==
    [FD0 EXCEPT !.Height = 15, !.BatteryPercentage = 87, !.NorthSpeed = 3,
                !.EastSpeed = 4, !.Flying = TRUE, !.Yaw = 90, !.SSID = "TELLO-A",
                !.Version = "01.04"]

FDb ==
    [FD0 EXCEPT !.Height = 7, !.BatteryPercentage = 9, !.BatteryLow = TRUE,
                !.OnGround = TRUE, !.PositionX = -1500000, !.SSID = "TELLO-B",
                !.Version = "01.04"]

SessionSnapshots == {FDa, FDb}

\* tmpFD := <-fdChan
IngestRecv(fdSet) ==
    /\ ~exited
    /\ ingPc = "recv"
    /\ nSnap < MaxSnapshots
    /\ \E fd \in fdSet : tmpFD' = fd
    /\ nSnap' = nSnap + 1
    /\ ingPc' = "lock"
    /\ UNCHANGED <<fields, fieldGen, mu, ingIdx, fdLogging, fdRows, fdLogErrs>>
    /\ UNCHANGED <<mainVars, rdVars, vidVars, jsVars>>
    /\ UNCHANGED fdFile

\* fieldsMu.Lock(), first half: the writer is announced
IngestLock ==
    /\ ~exited
    /\ ingPc = "lock"
    /\ mu' = [mu EXCEPT !.pending = TRUE]
    /\ ingPc' = "lockwait"
    /\ UNCHANGED <<fields, fieldGen, ingIdx, tmpFD, nSnap, fdLogging, fdRows, fdLogErrs>>
    /\ UNCHANGED <<mainVars, rdVars, vidVars, jsVars>>
    /\ UNCHANGED fdFile

\* fieldsMu.Lock(), second half: the readers have left
IngestLockAcquire ==
    /\ ~exited
    /\ ingPc = "lockwait"
    /\ CanLock(mu)
    /\ mu' = [mu EXCEPT !.pending = FALSE, !.writer = TRUE]
    /\ ingPc' = "update"
    /\ ingIdx' = 0
    /\ UNCHANGED <<fields, fieldGen, tmpFD, nSnap, fdLogging, fdRows, fdLogErrs>>
    /\ UNCHANGED <<mainVars, rdVars, vidVars, jsVars>>
    /\ UNCHANGED fdFile

\* the next assignment of updateFields
IngestStep ==
    /\ ~exited
    /\ ingPc = "update"
    /\ ingIdx < Len(UpdateOrder)
    /\ LET k == UpdateOrder[ingIdx + 1]
       IN  /\ fields' = [fields EXCEPT ![k] = NewValue(k, tmpFD, homeSet)]
           /\ fieldGen' = [fieldGen EXCEPT ![k] = nSnap]
    /\ ingIdx' = ingIdx + 1
    /\ noWriteSinceClear' = FALSE
    /\ UNCHANGED <<mu, ingPc, tmpFD, nSnap, fdLogging, fdRows, fdLogErrs>>
    /\ UNCHANGED <<rdPc, obs, painted, labels, paintIdx, stale>>
    /\ UNCHANGED <<mainVars, vidVars, jsVars>>
    /\ UNCHANGED fdFile

\* what a row is in the file when fdLog.Write ran while fdLog.Flush was
\* emptying the same buffer: a mixture of bytes
GarbledRow == <<"garbled">>

\* the file after a Write of row that raced with the Flush: the row lost, the
\* row whole, or the row damaged
RacedFile(file, row) == {file, Append(file, row), Append(file, GarbledRow)}

\* the end of updateFields: if fdLogging { fdLog.Write(logLine) }, the error
\* Write returns is dropped. The row goes to the writer's buffer; the
\* ingestion goroutine holds fieldsMu, which main's deferred Flush does not
\* take, so that a Write during the Flush is a data race on the buffer
IngestLog ==
    /\ ~exited
    /\ ingPc = "update"
    /\ ingIdx = Len(UpdateOrder)
    /\ IF fdLogging
       THEN \E ok \in BOOLEAN :
              /\ fdRows' = IF ok THEN Append(fdRows, LogLine(tmpFD)) ELSE fdRows
              /\ fdLogErrs' = IF ok THEN fdLogErrs ELSE fdLogErrs + 1
              /\ IF ok /\ mainPc = "flushing"
                 THEN fdFile' \in RacedFile(fdFile, LogLine(tmpFD))
                 ELSE UNCHANGED fdFile
       ELSE UNCHANGED <<fdRows, fdLogErrs, fdFile>>
    /\ ingPc' = "unlock"
    /\ UNCHANGED <<fields, fieldGen, mu, ingIdx, tmpFD, nSnap, fdLogging>>
    /\ UNCHANGED <<mainVars, rdVars, vidVars, jsVars>>

\* the mutant of IngestUnlock: the loop goes back to the receive with the
\* lock still held
IngestNoUnlock ==
    /\ ~exited
    /\ ingPc = "unlock"
    /\ ingPc' = "recv"
    /\ UNCHANGED <<fields, fieldGen, mu, ingIdx, tmpFD, nSnap, fdLogging, fdRows,
                   fdLogErrs>>
    /\ UNCHANGED <<mainVars, rdVars, vidVars, jsVars>>
    /\ UNCHANGED fdFile

\* fieldsMu.Unlock()
IngestUnlock ==
    /\ ~exited
    /\ ingPc = "unlock"
    /\ mu' = [mu EXCEPT !.writer = FALSE]
    /\ ingPc' = "recv"
    /\ UNCHANGED <<fields, fieldGen, ingIdx, tmpFD, nSnap, fdLogging, fdRows, fdLogErrs>>
    /\ UNCHANGED <<mainVars, rdVars, vidVars, jsVars>>
    /\ UNCHANGED fdFile

(***************************************************************************)
(* displayDataFields, run by the render goroutine (lines 272-278) and by   *)
(* the main thread (line 253 and the manual redraw).                       *)
(***************************************************************************)
\* fieldsMu.RLock()
ReaderRLock(r) ==
    /\ ~exited
    /\ rdPc[r] = "rlock"
    /\ CanRLock(mu)
    /\ mu' = [mu EXCEPT !.readers = @ + 1]
    /\ rdPc' = [rdPc EXCEPT ![r] = "paint"]
    /\ paintIdx' = [paintIdx EXCEPT ![r] = 0]
    /\ obs' = [obs EXCEPT ![r] = {}]
    /\ UNCHANGED <<fields, fieldGen, ingPc, ingIdx, tmpFD, nSnap, fdLogging, fdRows,
                   fdLogErrs, painted, labels, stale,
                   noWriteSinceClear>>
    /\ UNCHANGED <<mainVars, vidVars, jsVars>>
    /\ UNCHANGED fdFile

\* the next tbprint call of the loop over fields: a field's label, then its
\* padded value, for every field in turn
ReaderPaint(r) ==
    /\ ~exited
    /\ rdPc[r] = "paint"
    /\ LET i == paintIdx[r]
           k == FieldKeys[(i \div 2) + 1]
       IN  /\ IF i % 2 = 0
              THEN /\ labels' = labels \cup {k}
                   /\ UNCHANGED <<painted, stale, obs>>
              ELSE /\ painted' = [painted EXCEPT ![k] = PaintedText(fields, k)]
                   /\ stale' = [stale EXCEPT
                                  ![k] = StaleAfter(painted[k], stale[k],
                                                    PaintedText(fields, k))]
                   /\ obs' = [obs EXCEPT
                                ![r] = IF k \in UpdatedSet
                                       THEN @ \cup {fieldGen[k]} ELSE @]
                   /\ UNCHANGED labels
           /\ paintIdx' = [paintIdx EXCEPT ![r] = i + 1]
           /\ rdPc' = [rdPc EXCEPT ![r] = IF i + 1 = NumPrints THEN "runlock" ELSE "paint"]
    /\ UNCHANGED noWriteSinceClear
    /\ UNCHANGED <<mainVars, regVars, vidVars, jsVars>>
    /\ UNCHANGED fdFile

\* fieldsMu.RUnlock()
ReaderRUnlock(r) ==
    /\ ~exited
    /\ rdPc[r] = "runlock"
    /\ mu' = [mu EXCEPT !.readers = @ - 1]
    /\ rdPc' = [rdPc EXCEPT ![r] = "flush"]
    /\ UNCHANGED <<fields, fieldGen, ingPc, ingIdx, tmpFD, nSnap, fdLogging, fdRows,
                   fdLogErrs, obs, painted, labels, paintIdx, stale,
                   noWriteSinceClear>>
    /\ UNCHANGED <<mainVars, vidVars, jsVars>>
    /\ UNCHANGED fdFile

\* termbox.Flush() and the return: the render loop goes to sleep, the main
\* thread goes on after its call
ReaderFlush(r) ==
    /\ ~exited
    /\ rdPc[r] = "flush"
    /\ rdPc' = [rdPc EXCEPT ![r] = IF r = "render" THEN "sleep" ELSE "idle"]
    /\ mainPc' = IF r = "main"
                 THEN (IF mainPc = "display" THEN "connect" ELSE "poll")
                 ELSE mainPc
    /\ UNCHANGED <<exited, fatal, termboxOpen, lastEv, kbCmd, wideVideo, videoMode, homeSet,
                   picsSaved, numPics, flags, useJoystick, termSize, obs, painted, labels, paintIdx, stale,
                   noWriteSinceClear,
                   startLog>>
    /\ UNCHANGED <<regVars, vidVars, jsVars>>
    /\ UNCHANGED fdFile

\* the Duration (nanoseconds) the render loop sleeps for:
\* updatePeriodMs * time.Millisecond
RenderSleepNs == updatePeriodMs * Millisecond

\* time.Sleep(updatePeriodMs * time.Millisecond) of the render loop
RenderSleep ==
    /\ ~exited
    /\ rdPc["render"] = "sleep"
    /\ rdPc' = [rdPc EXCEPT !["render"] = "rlock"]
    /\ UNCHANGED <<obs, painted, labels, paintIdx, stale, noWriteSinceClear>>
    /\ UNCHANGED <<mainVars, regVars, vidVars, jsVars>>
    /\ UNCHANGED fdFile

(***************************************************************************)
(* func main up to the keyboard loop (lines 197-289).                      *)
(***************************************************************************)
\* the command lines followed: -jsid (999 when absent), -jstype ("" when
\* absent), -jstest, -fdlog (a file is named or not), and runtime.GOOS
JsTypes == {"", "DualShock4", "HotasX", "XBox"}

FlagSets ==
    [jsid : {999, 0}, jstype : JsTypes, jstest : BOOLEAN, fdlog : BOOLEAN,
     goos : {"linux", "windows"}]

\* the switch of setupJoystick: the configuration of a known joystick type
ConfigOf(jstype, goos) ==
    CASE jstype = "DualShock4" /\ goos = "windows" -> dualShock4ConfigWin
      [] jstype = "DualShock4" /\ goos # "windows" -> dualShock4Config
      [] jstype = "HotasX" -> tflightHotasXConfig

\* if *jsIDFlag != 999 { useJoystick = setupJoystick(*jsIDFlag) }: no -jstype,
\* a device that does not open and an unknown -jstype are each a log.Fatal
MainSetupJoystick ==
    /\ ~exited
    /\ mainPc = "flags"
    /\ IF flags.jsid = 999
       THEN /\ mainPc' = "jsTestFlag"
            /\ UNCHANGED <<exited, fatal, jsCfg, useJoystick>>
       ELSE IF flags.jstype = ""
       THEN /\ exited' = TRUE
            /\ fatal' = "jsNoType"
            /\ UNCHANGED <<mainPc, jsCfg, useJoystick>>
       ELSE \E opened \in BOOLEAN :
              IF ~opened
              THEN /\ exited' = TRUE
                   /\ fatal' = "jsOpen"
                   /\ UNCHANGED <<mainPc, jsCfg, useJoystick>>
              ELSE IF flags.jstype \notin {"DualShock4", "HotasX"}
              THEN /\ exited' = TRUE
                   /\ fatal' = "jsUnknownType"
                   /\ UNCHANGED <<mainPc, jsCfg, useJoystick>>
              ELSE /\ jsCfg' = ConfigOf(flags.jstype, flags.goos)
                   /\ useJoystick' = TRUE
                   /\ mainPc' = "jsTestFlag"
                   /\ UNCHANGED <<exited, fatal>>
    /\ UNCHANGED <<termboxOpen, lastEv, kbCmd, wideVideo, videoMode, homeSet, picsSaved, numPics,
                   flags, termSize,
                   startLog>>
    /\ UNCHANGED <<jsTest, jsPc, jsState, jsErr, prevState, lastGoodButtons, sm, stickLast, btnHist,
                   cmdHist,
                   stickCount, jsSleepNs, jsLog>>
    /\ UNCHANGED <<regVars, rdVars, vidVars>>
    /\ fdFile' \in IF exited' /\ DeferredRun(fatal') THEN FlushOutcomes(fdRows') ELSE {fdFile}

\* if *jsTest { readJoystick(true) }: the call does not return
MainJsTest ==
    /\ ~exited
    /\ mainPc = "jsTestFlag"
    /\ IF flags.jstest
       THEN /\ mainPc' = "readJoystick"
            /\ jsPc' = "read"
            /\ jsTest' = TRUE
       ELSE /\ mainPc' = "termboxInit"
            /\ UNCHANGED <<jsPc, jsTest>>
    /\ UNCHANGED <<exited, fatal, termboxOpen, lastEv, kbCmd, wideVideo, videoMode, homeSet,
                   picsSaved, numPics, flags, useJoystick, termSize,
                   startLog>>
    /\ UNCHANGED <<jsCfg, jsState, jsErr, prevState, lastGoodButtons, sm, stickLast, btnHist, cmdHist,
                   stickCount, jsSleepNs, jsLog>>
    /\ UNCHANGED <<regVars, rdVars, vidVars>>
    /\ UNCHANGED fdFile

\* headers := []string{...}
Headers == <<"Time", "X", "Y", "Z", "Yaw", "FDHeight">>

\* what can happen to the flight log file and to termbox.Init
InitOutcomes == {"ok", "fdlogCreate", "fdlogHeader", "termboxInit"}

\* the flight log set up when -fdlog names a file (a file that cannot be
\* created or a header that cannot be written is a log.Fatal), then
\* termbox.Init (an error is a panic)
MainTermboxInit ==
    /\ ~exited
    /\ mainPc = "termboxInit"
    /\ \E out \in InitOutcomes :
          /\ out \in {"fdlogCreate", "fdlogHeader"} => flags.fdlog
          /\ IF out = "ok"
             THEN /\ fdLogging' = flags.fdlog
                  /\ fdRows' = IF flags.fdlog THEN <<Headers>> ELSE <<>>
                  /\ termboxOpen' = TRUE
                  /\ mainPc' = "checkTermSize"
                  /\ UNCHANGED <<exited, fatal>>
             ELSE /\ exited' = TRUE
                  /\ fatal' = out
                  /\ fdLogging' = (flags.fdlog /\ out = "termboxInit")
                  /\ fdRows' = IF flags.fdlog /\ out = "termboxInit"
                               THEN <<Headers>> ELSE <<>>
                  /\ UNCHANGED <<termboxOpen, mainPc>>
    /\ UNCHANGED <<lastEv, kbCmd, wideVideo, videoMode, homeSet, picsSaved, numPics, flags,
                   useJoystick, termSize,
                   startLog>>
    /\ UNCHANGED <<fields, fieldGen, mu, ingPc, ingIdx, tmpFD, nSnap, fdLogErrs>>
    /\ UNCHANGED <<rdVars, vidVars, jsVars>>
    /\ fdFile' \in IF exited' /\ DeferredRun(fatal') THEN FlushOutcomes(fdRows') ELSE {fdFile}

\* terminal sizes on both sides of the minimum
TermSizes == {<<79, 24>>, <<80, 23>>, <<80, 24>>, <<120, 40>>}

\* the mutant of MainCheckTermSize: only the width is tested
MainCheckTermWidth ==
    /\ ~exited
    /\ mainPc = "checkTermSize"
    /\ startLog' = Append(startLog, "checkTermSize")
    /\ \E sz \in TermSizes :
          /\ termSize' = sz
          /\ IF sz[1] < minWidth
             THEN /\ termboxOpen' = FALSE
                  /\ exited' = TRUE
                  /\ fatal' = "termSize"
                  /\ UNCHANGED mainPc
             ELSE /\ mainPc' = "setupFields"
                  /\ UNCHANGED <<termboxOpen, exited, fatal>>
    /\ UNCHANGED <<lastEv, kbCmd, wideVideo, videoMode, homeSet, picsSaved, numPics, flags,
                   useJoystick>>
    /\ UNCHANGED <<regVars, rdVars, vidVars, jsVars>>
    /\ fdFile' \in IF exited' /\ DeferredRun(fatal') THEN FlushOutcomes(fdRows') ELSE {fdFile}

\* checkTermSize: too small a terminal is closed and the process ends
MainCheckTermSize ==
    /\ ~exited
    /\ mainPc = "checkTermSize"
    /\ startLog' = Append(startLog, "checkTermSize")
    /\ \E sz \in TermSizes :
          /\ termSize' = sz
          /\ IF sz[1] < minWidth \/ sz[2] < minHeight
             THEN /\ termboxOpen' = FALSE
                  /\ exited' = TRUE
                  /\ fatal' = "termSize"
                  /\ UNCHANGED mainPc
             ELSE /\ mainPc' = "setupFields"
                  /\ UNCHANGED <<termboxOpen, exited, fatal>>
    /\ UNCHANGED <<lastEv, kbCmd, wideVideo, videoMode, homeSet, picsSaved, numPics, flags,
                   useJoystick>>
    /\ UNCHANGED <<regVars, rdVars, vidVars, jsVars>>
    /\ fdFile' \in IF exited' /\ DeferredRun(fatal') THEN FlushOutcomes(fdRows') ELSE {fdFile}

\* setupFields(); displayStaticFields(); and the call of displayDataFields()
MainSetup ==
    /\ ~exited
    /\ mainPc = "setupFields"
    /\ fields' = InitialValues
    /\ startLog' = startLog \o <<"setupFields", "displayStaticFields",
                               "displayDataFields">>
    /\ mainPc' = "display"
    /\ rdPc' = [rdPc EXCEPT !["main"] = "rlock"]
    /\ UNCHANGED <<exited, fatal, termboxOpen, lastEv, kbCmd, wideVideo, videoMode, homeSet,
                   picsSaved, numPics, flags, useJoystick, termSize>>
    /\ UNCHANGED <<fieldGen, mu, ingPc, ingIdx, tmpFD, nSnap, fdLogging, fdRows,
                   fdLogErrs, obs, painted, labels, paintIdx, stale,
                   noWriteSinceClear>>
    /\ UNCHANGED <<vidVars, jsVars>>
    /\ UNCHANGED fdFile

\* the mutant of MainConnect: a failed connect is reported and main goes on
MainConnectNotFatal ==
    /\ ~exited
    /\ mainPc = "connect"
    /\ startLog' = Append(startLog, "ControlConnectDefault")
    /\ \E ok \in BOOLEAN :
          IF ok
          THEN /\ mainPc' = "startLoops"
               /\ UNCHANGED <<termboxOpen, exited, fatal>>
          ELSE /\ termboxOpen' = FALSE
               /\ fatal' = "connect"
               /\ mainPc' = "startLoops"
               /\ UNCHANGED exited
    /\ UNCHANGED <<lastEv, kbCmd, wideVideo, videoMode, homeSet, picsSaved, numPics, flags,
                   useJoystick, termSize>>
    /\ UNCHANGED <<regVars, rdVars, vidVars, jsVars>>
    /\ UNCHANGED fdFile

\* drone.ControlConnectDefault(): on an error the terminal is closed and the
\* process ends
MainConnect ==
    /\ ~exited
    /\ mainPc = "connect"
    /\ startLog' = Append(startLog, "ControlConnectDefault")
    /\ \E ok \in BOOLEAN :
          IF ok
          THEN /\ mainPc' = "startLoops"
               /\ UNCHANGED <<termboxOpen, exited, fatal>>
          ELSE /\ termboxOpen' = FALSE
               /\ exited' = TRUE
               /\ fatal' = "connect"
               /\ UNCHANGED mainPc
    /\ UNCHANGED <<lastEv, kbCmd, wideVideo, videoMode, homeSet, picsSaved, numPics, flags,
                   useJoystick, termSize>>
    /\ UNCHANGED <<regVars, rdVars, vidVars, jsVars>>
    /\ fdFile' \in IF exited' /\ DeferredRun(fatal') THEN FlushOutcomes(fdRows') ELSE {fdFile}

\* the requests for the data the drone does not send by itself
ExtendedInfoRequests ==
    <<<<"GetLowBatteryThreshold">>, <<"GetMaxHeight">>, <<"GetSSID">>, <<"GetVersion">>>>

\* lines 262-291 in program order: the subscription, the two goroutines, the
\* four requests, the joystick loop when there is one, the keyboard loop
LoopSteps(js) ==
    <<"StreamFlightData", "ingestion", "render", "GetLowBatteryThreshold",
      "GetMaxHeight", "GetSSID", "GetVersion">>
      \o (IF js THEN <<"StartStickListener", "readJoystick">> ELSE <<>>)
      \o <<"mainloop">>

\* lines 249-291 in program order
StartupSteps(js) ==
    <<"checkTermSize", "setupFields", "displayStaticFields", "displayDataFields",
      "ControlConnectDefault">> \o LoopSteps(js)

\* fdChan, _ := drone.StreamFlightData(false, updatePeriodMs) and the go
\* statement of the ingestion goroutine (lines 262-270)
MainStartIngest ==
    /\ ~exited
    /\ mainPc = "startLoops"
    /\ ingPc' = "recv"
    /\ startLog' = startLog \o <<"StreamFlightData", "ingestion">>
    /\ mainPc' = "startRender"
    /\ UNCHANGED <<exited, fatal, termboxOpen, lastEv, kbCmd, wideVideo, videoMode, homeSet,
                   picsSaved, numPics, flags, useJoystick, termSize>>
    /\ UNCHANGED <<fields, fieldGen, mu, ingIdx, tmpFD, nSnap, fdLogging, fdRows,
                   fdLogErrs>>
    /\ UNCHANGED <<rdVars, vidVars, jsVars>>
    /\ UNCHANGED fdFile

\* the go statement of the render goroutine (lines 272-278)
MainStartRender ==
    /\ ~exited
    /\ mainPc = "startRender"
    /\ rdPc' = [rdPc EXCEPT !["render"] = "rlock"]
    /\ startLog' = Append(startLog, "render")
    /\ mainPc' = "requests"
    /\ UNCHANGED <<exited, fatal, termboxOpen, lastEv, kbCmd, wideVideo, videoMode, homeSet,
                   picsSaved, numPics, flags, useJoystick, termSize>>
    /\ UNCHANGED <<obs, painted, labels, paintIdx, stale, noWriteSinceClear>>
    /\ UNCHANGED <<regVars, vidVars, jsVars>>
    /\ UNCHANGED fdFile

\* one of drone.GetLowBatteryThreshold(), GetMaxHeight(), GetSSID(),
\* GetVersion() (lines 281-284), in that order
MainRequest ==
    /\ ~exited
    /\ mainPc = "requests"
    /\ LET req == ExtendedInfoRequests[Len(kbCmd) + 1]
       IN  /\ kbCmd' = Append(kbCmd, req)
           /\ startLog' = Append(startLog, req[1])
    /\ mainPc' = IF Len(kbCmd') = Len(ExtendedInfoRequests)
                 THEN "startJoystick" ELSE "requests"
    /\ UNCHANGED <<exited, fatal, termboxOpen, lastEv, wideVideo, videoMode, homeSet,
                   picsSaved, numPics, flags, useJoystick, termSize>>
    /\ UNCHANGED <<regVars, rdVars, vidVars, jsVars>>
    /\ UNCHANGED fdFile

\* if useJoystick { StartStickListener(); go readJoystick(false) }, and main
\* enters the keyboard loop (lines 286-291)
MainStartJoystick ==
    /\ ~exited
    /\ mainPc = "startJoystick"
    /\ startLog' = startLog
                     \o (IF useJoystick THEN <<"StartStickListener", "readJoystick">>
                         ELSE <<>>)
                     \o <<"mainloop">>
    /\ mainPc' = "poll"
    /\ jsPc' = IF useJoystick THEN "read" ELSE jsPc
    /\ jsTest' = IF useJoystick THEN FALSE ELSE jsTest
    /\ UNCHANGED <<exited, fatal, termboxOpen, lastEv, kbCmd, wideVideo, videoMode, homeSet,
                   picsSaved, numPics, flags, useJoystick, termSize>>
    /\ UNCHANGED <<jsCfg, jsState, jsErr, prevState, lastGoodButtons, sm, stickLast, btnHist, cmdHist,
                   stickCount, jsSleepNs, jsLog>>
    /\ UNCHANGED <<regVars, rdVars, vidVars>>
    /\ UNCHANGED fdFile

(***************************************************************************)
(* The keyboard loop (main, lines 291-373).                                *)
(***************************************************************************)
KeyEv(key, ch) == [Type |-> "EventKey", Key |-> key, Ch |-> ch]

SpecialKeys ==
    {"KeyEsc", "KeyCtrlL", "KeySpace", "KeyArrowUp", "KeyArrowDown", "KeyArrowLeft",
     "KeyArrowRight", "KeyHome", "KeyF1"}

Chars ==
    {"q", "r", "b", "t", "o", "l", "p", "w", "a", "s", "d", "f", "v", "0", "1", "2",
     "3", "4", "+", "-", "=", "z"}

\* what termbox.PollEvent can return: special keys (KeyF1 is bound to nothing),
\* characters (z is bound to nothing), and an event that is no key
Events ==
    {KeyEv(k, "") : k \in SpecialKeys} \cup {KeyEv("", c) : c \in Chars}
        \cup {[Type |-> "EventResize", Key |-> "", Ch |-> ""]}

IsKey(ev, key) == ev.Type = "EventKey" /\ ev.Key = key
IsChar(ev, ch) == ev.Type = "EventKey" /\ ev.Key \notin (SpecialKeys \ {"KeyF1"}) /\ ev.Ch = ch

IsQuit(ev) == IsKey(ev, "KeyEsc") \/ IsChar(ev, "q")
IsRedraw(ev) == IsKey(ev, "KeyCtrlL") \/ IsChar(ev, "r")
IsVideo(ev) == IsChar(ev, "v")

\* the mutant of KeyCommands: w, a, s and d move at keyPct, as the arrows do
KeyCommandsOneSpeed(ev, wide, home) ==
    CASE IsKey(ev, "KeySpace")      -> <<<<"Hover">>>>
      [] IsKey(ev, "KeyArrowUp")    -> <<<<"Forward", keyPct>>>>
      [] IsKey(ev, "KeyArrowDown")  -> <<<<"Backward", keyPct>>>>
      [] IsKey(ev, "KeyArrowLeft")  -> <<<<"Left", keyPct>>>>
      [] IsKey(ev, "KeyArrowRight") -> <<<<"Right", keyPct>>>>
      [] IsKey(ev, "KeyHome")       ->
             IF home THEN <<<<"AutoFlyToXY", 0, 0>>>> ELSE <<<<"SetHome">>>>
      [] IsChar(ev, "b") -> <<<<"Bounce">>>>
      [] IsChar(ev, "t") -> <<<<"TakeOff">>>>
      [] IsChar(ev, "o") -> <<<<"ThrowTakeOff">>>>
      [] IsChar(ev, "l") -> <<<<"Land">>>>
      [] IsChar(ev, "p") -> <<<<"PalmLand">>>>
      [] IsChar(ev, "w") -> <<<<"Up", keyPct>>>>
      [] IsChar(ev, "a") -> <<<<"TurnLeft", keyPct>>>>
      [] IsChar(ev, "s") -> <<<<"Down", keyPct>>>>
      [] IsChar(ev, "d") -> <<<<"TurnRight", keyPct>>>>
      [] IsChar(ev, "f") -> <<<<"TakePicture">>>>
      [] IsChar(ev, "0") -> <<<<"StartSmartVideo", "Sv360">>>>
      [] IsChar(ev, "1") -> <<<<"ForwardFlip">>>>
      [] IsChar(ev, "2") -> <<<<"BackFlip">>>>
      [] IsChar(ev, "3") -> <<<<"LeftFlip">>>>
      [] IsChar(ev, "4") -> <<<<"RightFlip">>>>
      [] IsChar(ev, "+") -> <<<<"SetFastMode">>>>
      [] IsChar(ev, "-") -> <<<<"SetSlowMode">>>>
      [] IsChar(ev, "=") ->
             IF wide THEN <<<<"SetVideoNormal">>>> ELSE <<<<"SetVideoWide">>>>
      [] OTHER -> <<>>

\* the drone commands of the event's case, given wideVideo and IsHomeSet()
KeyCommands(ev, wide, home) ==
    CASE IsKey(ev, "KeySpace")      -> <<<<"Hover">>>>
      [] IsKey(ev, "KeyArrowUp")    -> <<<<"Forward", keyPct>>>>
      [] IsKey(ev, "KeyArrowDown")  -> <<<<"Backward", keyPct>>>>
      [] IsKey(ev, "KeyArrowLeft")  -> <<<<"Left", keyPct>>>>
      [] IsKey(ev, "KeyArrowRight") -> <<<<"Right", keyPct>>>>
      [] IsKey(ev, "KeyHome")       ->
             IF home THEN <<<<"AutoFlyToXY", 0, 0>>>> ELSE <<<<"SetHome">>>>
      [] IsChar(ev, "b") -> <<<<"Bounce">>>>
      [] IsChar(ev, "t") -> <<<<"TakeOff">>>>
      [] IsChar(ev, "o") -> <<<<"ThrowTakeOff">>>>
      [] IsChar(ev, "l") -> <<<<"Land">>>>
      [] IsChar(ev, "p") -> <<<<"PalmLand">>>>
      [] IsChar(ev, "w") -> <<<<"Up", keyPct * 2>>>>
      [] IsChar(ev, "a") -> <<<<"TurnLeft", keyPct * 2>>>>
      [] IsChar(ev, "s") -> <<<<"Down", keyPct * 2>>>>
      [] IsChar(ev, "d") -> <<<<"TurnRight", keyPct * 2>>>>
      [] IsChar(ev, "f") -> <<<<"TakePicture">>>>
      [] IsChar(ev, "0") -> <<<<"StartSmartVideo", "Sv360">>>>
      [] IsChar(ev, "1") -> <<<<"ForwardFlip">>>>
      [] IsChar(ev, "2") -> <<<<"BackFlip">>>>
      [] IsChar(ev, "3") -> <<<<"LeftFlip">>>>
      [] IsChar(ev, "4") -> <<<<"RightFlip">>>>
      [] IsChar(ev, "+") -> <<<<"SetFastMode">>>>
      [] IsChar(ev, "-") -> <<<<"SetSlowMode">>>>
      [] IsChar(ev, "=") ->
             IF wide THEN <<<<"SetVideoNormal">>>> ELSE <<<<"SetVideoWide">>>>
      [] OTHER -> <<>>

\* case KeyEsc, case 'q': break mainloop
MainQuit(evSet) ==
    /\ ~exited
    /\ mainPc = "poll"
    /\ \E ev \in evSet : IsQuit(ev) /\ lastEv' = ev
    /\ kbCmd' = <<>>
    /\ mainPc' = "savePics"
    /\ UNCHANGED <<exited, fatal, termboxOpen, wideVideo, videoMode, homeSet, picsSaved, numPics, flags,
                   useJoystick, termSize,
                   startLog>>
    /\ UNCHANGED <<regVars, rdVars, vidVars, jsVars>>
    /\ UNCHANGED fdFile

\* the mutant of MainRedraw: the screen is not cleared before the repaint
MainRedrawNoClear(evSet) ==
    /\ ~exited
    /\ mainPc = "poll"
    /\ \E ev \in evSet : IsRedraw(ev) /\ lastEv' = ev
    /\ kbCmd' = <<>>
    /\ noWriteSinceClear' = TRUE
    /\ mainPc' = "redraw"
    /\ rdPc' = [rdPc EXCEPT !["main"] = "rlock"]
    /\ UNCHANGED <<exited, fatal, termboxOpen, wideVideo, videoMode, homeSet, picsSaved, numPics,
                   flags, useJoystick, termSize, obs, painted, labels, paintIdx, stale,
                   startLog>>
    /\ UNCHANGED <<regVars, vidVars, jsVars>>
    /\ UNCHANGED fdFile

\* case KeyCtrlL, case 'r': termbox.Sync(); displayStaticFields(), which
\* clears the screen; and the call of displayDataFields()
MainRedraw(evSet) ==
    /\ ~exited
    /\ mainPc = "poll"
    /\ \E ev \in evSet : IsRedraw(ev) /\ lastEv' = ev
    /\ kbCmd' = <<>>
    /\ painted' = [k \in FieldSet |-> ""]
    /\ labels' = {}
    /\ stale' = [k \in FieldSet |-> 0]
    /\ noWriteSinceClear' = TRUE
    /\ mainPc' = "redraw"
    /\ rdPc' = [rdPc EXCEPT !["main"] = "rlock"]
    /\ UNCHANGED <<exited, fatal, termboxOpen, wideVideo, videoMode, homeSet, picsSaved, numPics, flags,
                   useJoystick, termSize, obs, paintIdx,
                   startLog>>
    /\ UNCHANGED <<regVars, vidVars, jsVars>>
    /\ UNCHANGED fdFile

\* the mutant of MainCommand: an event bound to nothing leaves the loop
MainCommandUnboundQuits(evSet) ==
    /\ ~exited
    /\ mainPc = "poll"
    /\ \E ev \in evSet :
          /\ ~IsQuit(ev) /\ ~IsRedraw(ev) /\ ~IsVideo(ev)
          /\ lastEv' = ev
          /\ kbCmd' = KeyCommands(ev, wideVideo, homeSet)
          /\ wideVideo' = IF IsChar(ev, "=") THEN ~wideVideo ELSE wideVideo
          /\ videoMode' = IF IsChar(ev, "=")
                          THEN KeyCommands(ev, wideVideo, homeSet)[1][1]
                          ELSE videoMode
          /\ IF IsKey(ev, "KeyHome") /\ ~homeSet
             THEN homeSet' \in BOOLEAN
             ELSE UNCHANGED homeSet
          /\ mainPc' = IF KeyCommands(ev, wideVideo, homeSet) = <<>>
                       THEN "savePics" ELSE mainPc
    /\ UNCHANGED <<exited, fatal, termboxOpen, picsSaved, numPics, flags,
                   useJoystick, termSize,
                   startLog>>
    /\ UNCHANGED <<regVars, rdVars, vidVars, jsVars>>
    /\ UNCHANGED fdFile

\* the mutant of MainCommand: '=' issues its command and leaves wideVideo alone
MainCommandNoFlip(evSet) ==
    /\ ~exited
    /\ mainPc = "poll"
    /\ \E ev \in evSet :
          /\ ~IsQuit(ev) /\ ~IsRedraw(ev) /\ ~IsVideo(ev)
          /\ lastEv' = ev
          /\ kbCmd' = KeyCommands(ev, wideVideo, homeSet)
          /\ wideVideo' = wideVideo
          /\ videoMode' = IF IsChar(ev, "=")
                          THEN KeyCommands(ev, wideVideo, homeSet)[1][1]
                          ELSE videoMode
          /\ IF IsKey(ev, "KeyHome") /\ ~homeSet
             THEN homeSet' \in BOOLEAN
             ELSE UNCHANGED homeSet
    /\ UNCHANGED <<mainPc, exited, fatal, termboxOpen, picsSaved, numPics, flags,
                   useJoystick, termSize,
                   startLog>>
    /\ UNCHANGED <<regVars, rdVars, vidVars, jsVars>>
    /\ UNCHANGED fdFile

\* every other event: the commands of its case (none for an unbound key or
\* an event that is no key); '=' also flips wideVideo
MainCommand(evSet) ==
    /\ ~exited
    /\ mainPc = "poll"
    /\ \E ev \in evSet :
          /\ ~IsQuit(ev) /\ ~IsRedraw(ev) /\ ~IsVideo(ev)
          /\ lastEv' = ev
          /\ kbCmd' = KeyCommands(ev, wideVideo, homeSet)
          /\ wideVideo' = IF IsChar(ev, "=") THEN ~wideVideo ELSE wideVideo
          /\ videoMode' = IF IsChar(ev, "=")
                          THEN KeyCommands(ev, wideVideo, homeSet)[1][1]
                          ELSE videoMode
          /\ IF IsKey(ev, "KeyHome") /\ ~homeSet
             THEN homeSet' \in BOOLEAN
             ELSE UNCHANGED homeSet
    /\ UNCHANGED <<mainPc, exited, fatal, termboxOpen, picsSaved, numPics, flags,
                   useJoystick, termSize,
                   startLog>>
    /\ UNCHANGED <<regVars, rdVars, vidVars, jsVars>>
    /\ UNCHANGED fdFile

\* time.Now().Format(time.RFC3339) at the end of two sessions
Timestamps == {"2018-08-01T10:00:00Z", "2018-08-01T10:05:30+01:00"}

\* the drone service has received a picture: NumPics() goes up; its receiver
\* runs until the process is gone, main's deferred calls included
PictureArrives ==
    /\ ~exited
    /\ mainPc \in {"poll", "redraw", "savePics", "deferClose", "deferFlush", "flushing",
                   "return"}
    /\ numPics < MaxPics
    /\ numPics' = numPics + 1
    /\ UNCHANGED <<mainPc, exited, fatal, termboxOpen, lastEv, kbCmd, wideVideo, videoMode,
                   homeSet, picsSaved, flags, useJoystick, termSize,
                   startLog>>
    /\ UNCHANGED <<regVars, rdVars, vidVars, jsVars>>
    /\ UNCHANGED fdFile

\* the mutant of MainSavePics: SaveAllPics is called whatever NumPics() is
MainSavePicsAlways ==
    /\ ~exited
    /\ mainPc = "savePics"
    /\ \E now \in Timestamps :
          picsSaved' = Append(picsSaved, "tello_pic_" \o now)
    /\ mainPc' = "deferClose"
    /\ UNCHANGED <<exited, termboxOpen, fatal, lastEv, kbCmd, wideVideo, videoMode, homeSet,
                   numPics, flags, useJoystick, termSize, startLog>>
    /\ UNCHANGED <<regVars, rdVars, vidVars, jsVars>>
    /\ UNCHANGED fdFile

\* after the loop: if drone.NumPics() > 0 { drone.SaveAllPics(...) } (lines
\* 375-377); main's return comes next
MainSavePics ==
    /\ ~exited
    /\ mainPc = "savePics"
    /\ \E now \in Timestamps :
          picsSaved' = IF numPics > 0
                       THEN Append(picsSaved, "tello_pic_" \o now)
                       ELSE picsSaved
    /\ mainPc' = "deferClose"
    /\ UNCHANGED <<exited, termboxOpen, fatal, lastEv, kbCmd, wideVideo, videoMode, homeSet,
                   numPics, flags, useJoystick, termSize, startLog>>
    /\ UNCHANGED <<regVars, rdVars, vidVars, jsVars>>
    /\ UNCHANGED fdFile

\* main returns (line 378): the deferred calls run last registered first, the
\* goroutines still running; the first is termbox.Close() (line 247)
MainDeferTermboxClose ==
    /\ ~exited
    /\ mainPc = "deferClose"
    /\ termboxOpen' = FALSE
    /\ mainPc' = IF fdLogging THEN "deferFlush" ELSE "return"
    /\ UNCHANGED <<exited, fatal, lastEv, kbCmd, wideVideo, videoMode, homeSet, picsSaved,
                   numPics, flags, useJoystick, termSize, startLog>>
    /\ UNCHANGED <<regVars, rdVars, vidVars, jsVars>>
    /\ UNCHANGED fdFile

\* the deferred fdLog.Flush() (line 234) begins: the rows handed to the log so
\* far go to the file, or those of them written before the write failed;
\* main holds no lock
MainDeferFlush ==
    /\ ~exited
    /\ mainPc = "deferFlush"
    /\ fdFile' \in FlushOutcomes(fdRows)
    /\ mainPc' = "flushing"
    /\ UNCHANGED <<exited, termboxOpen, fatal, lastEv, kbCmd, wideVideo, videoMode, homeSet,
                   picsSaved, numPics, flags, useJoystick, termSize, startLog>>
    /\ UNCHANGED <<regVars, rdVars, vidVars, jsVars>>

\* the deferred fdLog.Flush() returns
MainDeferFlushed ==
    /\ ~exited
    /\ mainPc = "flushing"
    /\ mainPc' = "return"
    /\ UNCHANGED <<exited, termboxOpen, fatal, lastEv, kbCmd, wideVideo, videoMode, homeSet,
                   picsSaved, numPics, flags, useJoystick, termSize, startLog>>
    /\ UNCHANGED <<regVars, rdVars, vidVars, jsVars>>
    /\ UNCHANGED fdFile

\* the deferred fdlogFile.Close() (line 232) when there is a log, and main
\* has returned: the process ends, its goroutines with it
MainReturn ==
    /\ ~exited
    /\ mainPc = "return"
    /\ exited' = TRUE
    /\ mainPc' = "done"
    /\ UNCHANGED <<termboxOpen, fatal, lastEv, kbCmd, wideVideo, videoMode, homeSet,
                   picsSaved, numPics, flags, useJoystick, termSize, startLog>>
    /\ UNCHANGED <<regVars, rdVars, vidVars, jsVars>>
    /\ UNCHANGED fdFile

\* main's return and its deferred calls
ReturnNext ==
    \/ MainDeferTermboxClose
    \/ MainDeferFlush
    \/ MainDeferFlushed
    \/ MainReturn

(***************************************************************************)
(* The video relay (startVideo, lines 521-564).                            *)
(***************************************************************************)
StartVideoOutcomes == {"ok", "videoConnect", "playerPipe", "playerStart"}

CountUp(n) == IF n < MaxStartVideo THEN n + 1 ELSE n

IsPrefix(s, t) == Len(s) <= Len(t) /\ \A i \in 1..Len(s) : s[i] = t[i]

\* case 'v': startVideo().  Each of its three failures is a log.Fatalf; when
\* all succeed drone.StartVideo() is called and the two goroutines start
MainStartVideo(evSet) ==
    /\ ~exited
    /\ mainPc = "poll"
    /\ nRelay < MaxRelays
    /\ \E ev \in evSet : IsVideo(ev) /\ lastEv' = ev
    /\ kbCmd' = <<>>
    /\ \E out \in StartVideoOutcomes :
          IF out = "ok"
          THEN /\ nRelay' = nRelay + 1
               /\ nStartVideo' = CountUp(nStartVideo)
               /\ vrPc' = [vrPc EXCEPT ![nRelay + 1] = "call"]
               /\ vcPc' = [vcPc EXCEPT ![nRelay + 1] = "recv"]
               /\ UNCHANGED <<exited, fatal>>
          ELSE /\ exited' = TRUE
               /\ fatal' = out
               /\ UNCHANGED <<nRelay, nStartVideo, vrPc, vcPc>>
    /\ UNCHANGED <<mainPc, termboxOpen, wideVideo, videoMode, homeSet, picsSaved, numPics, flags,
                   useJoystick, termSize,
                   startLog>>
    /\ UNCHANGED <<vchan, vrecv, vwritten>>
    /\ UNCHANGED <<regVars, rdVars, jsVars>>
    /\ fdFile' \in IF exited' /\ DeferredRun(fatal') THEN FlushOutcomes(fdRows') ELSE {fdFile}

\* the first goroutine: drone.StartVideo()
VideoReassert(i) ==
    /\ ~exited
    /\ vrPc[i] = "call"
    /\ nStartVideo' = CountUp(nStartVideo)
    /\ vrPc' = [vrPc EXCEPT ![i] = "sleep"]
    /\ UNCHANGED <<nRelay, vcPc, vchan, vrecv, vwritten>>
    /\ UNCHANGED <<mainVars, regVars, rdVars, jsVars>>
    /\ UNCHANGED fdFile

\* the mutant of VideoSleep: the next request waits for a video chunk
VideoSleepUntilChunk(i) ==
    /\ ~exited
    /\ vrPc[i] = "sleep"
    /\ vchan[i] # <<>>
    /\ vrPc' = [vrPc EXCEPT ![i] = "call"]
    /\ UNCHANGED <<nRelay, vcPc, vchan, vrecv, vwritten, nStartVideo>>
    /\ UNCHANGED <<mainVars, regVars, rdVars, jsVars>>
    /\ UNCHANGED fdFile

\* the first goroutine: time.Sleep(500 * time.Millisecond)
VideoSleep(i) ==
    /\ ~exited
    /\ vrPc[i] = "sleep"
    /\ vrPc' = [vrPc EXCEPT ![i] = "call"]
    /\ UNCHANGED <<nRelay, vcPc, vchan, vrecv, vwritten, nStartVideo>>
    /\ UNCHANGED <<mainVars, regVars, rdVars, jsVars>>
    /\ UNCHANGED fdFile

\* the drone service puts the next chunk of the stream, named by its number
\* in the stream, on the relay's video channel
VideoChunkArrives(i) ==
    /\ ~exited
    /\ i <= nRelay
    /\ Len(vrecv[i]) + Len(vchan[i]) < MaxChunks
    /\ vchan' = [vchan EXCEPT ![i] = Append(@, Len(vrecv[i]) + Len(vchan[i]) + 1)]
    /\ UNCHANGED <<nRelay, vrPc, vcPc, vrecv, vwritten, nStartVideo>>
    /\ UNCHANGED <<mainVars, regVars, rdVars, jsVars>>
    /\ UNCHANGED fdFile

\* the second goroutine: vbuf := <-videochan
VideoRecv(i) ==
    /\ ~exited
    /\ vcPc[i] = "recv"
    /\ vchan[i] # <<>>
    /\ vrecv' = [vrecv EXCEPT ![i] = Append(@, Head(vchan[i]))]
    /\ vchan' = [vchan EXCEPT ![i] = Tail(@)]
    /\ vcPc' = [vcPc EXCEPT ![i] = "write"]
    /\ UNCHANGED <<nRelay, vrPc, vwritten, nStartVideo>>
    /\ UNCHANGED <<mainVars, regVars, rdVars, jsVars>>
    /\ UNCHANGED fdFile

\* the mutant of VideoWrite: a failed write is skipped and the loop goes on
VideoWriteSkipping(i) ==
    /\ ~exited
    /\ vcPc[i] = "write"
    /\ \E ok \in BOOLEAN :
          vwritten' = [vwritten EXCEPT
                         ![i] = IF ok THEN Append(@, vrecv[i][Len(vrecv[i])]) ELSE @]
    /\ vcPc' = [vcPc EXCEPT ![i] = "recv"]
    /\ UNCHANGED <<nRelay, vrPc, vchan, vrecv, nStartVideo>>
    /\ UNCHANGED <<mainVars, regVars, rdVars, jsVars>>
    /\ UNCHANGED fdFile

\* the second goroutine: playerIn.Write(vbuf); an error is a log.Fatalf
VideoWrite(i) ==
    /\ ~exited
    /\ vcPc[i] = "write"
    /\ \E ok \in BOOLEAN :
          IF ok
          THEN /\ vwritten' = [vwritten EXCEPT ![i] = Append(@, vrecv[i][Len(vrecv[i])])]
               /\ vcPc' = [vcPc EXCEPT ![i] = "recv"]
               /\ UNCHANGED <<exited, fatal>>
          ELSE /\ exited' = TRUE
               /\ fatal' = "playerWrite"
               /\ UNCHANGED <<vwritten, vcPc>>
    /\ UNCHANGED <<mainPc, termboxOpen, lastEv, kbCmd, wideVideo, videoMode, homeSet, picsSaved, numPics, flags,
                   useJoystick, termSize,
                   startLog>>
    /\ UNCHANGED <<nRelay, vrPc, vchan, vrecv, nStartVideo>>
    /\ UNCHANGED <<regVars, rdVars, jsVars>>
    /\ fdFile' \in IF exited' /\ DeferredRun(fatal') THEN FlushOutcomes(fdRows') ELSE {fdFile}

(***************************************************************************)
(* Initial states.                                                         *)
(***************************************************************************)
NoEvent == [Type |-> "", Key |-> "", Ch |-> ""]

\* the process after flag.Parse, the optional log file and termbox.Init
MainStart ==
    /\ mainPc = "checkTermSize"
    /\ exited = FALSE
    /\ fatal = ""
    /\ termboxOpen = TRUE
    /\ lastEv = NoEvent
    /\ kbCmd = <<>>
    /\ wideVideo = FALSE
    /\ videoMode = ""
    /\ homeSet = FALSE
    /\ picsSaved = <<>>
    /\ numPics = 0
    /\ termSize = <<0, 0>>
    /\ startLog = <<>>

\* the command line of a session without a joystick
PlainFlags(fdlog) ==
    [jsid |-> 999, jstype |-> "", jstest |-> FALSE, fdlog |-> fdlog, goos |-> "linux"]

\* var fields before setupFields; fdLogging and the header row as the -fdlog
\* flag sets them
RegistryStart ==
    /\ fields = [k \in FieldSet |-> ""]
    /\ fieldGen = [k \in FieldSet |-> 0]
    /\ mu = MuFree
    /\ ingPc = "off"
    /\ ingIdx = 0
    /\ tmpFD = FD0
    /\ nSnap = 0
    /\ fdLogging \in BOOLEAN
    /\ fdRows = IF fdLogging THEN <<Headers>> ELSE <<>>
    /\ fdLogErrs = 0
    /\ fdFile = <<>>
    /\ rdPc = [r \in Readers |-> "idle"]
    /\ obs = [r \in Readers |-> {}]
    /\ painted = [k \in FieldSet |-> ""]
    /\ labels = {}
    /\ paintIdx = [r \in Readers |-> 0]
    /\ stale = [k \in FieldSet |-> 0]
    /\ noWriteSinceClear = TRUE

VideoStart ==
    /\ nRelay = 0
    /\ vrPc = [i \in Relays |-> "off"]
    /\ vcPc = [i \in Relays |-> "off"]
    /\ vchan = [i \in Relays |-> <<>>]
    /\ vrecv = [i \in Relays |-> <<>>]
    /\ vwritten = [i \in Relays |-> <<>>]
    /\ nStartVideo = 0

\* a session without a joystick
Init ==
    /\ MainStart /\ RegistryStart /\ VideoStart /\ JsIdle
    /\ flags = PlainFlags(fdLogging)
    /\ useJoystick = FALSE

\* the process started without -fdlog
InitNoLog == Init /\ ~fdLogging

\* the process after flag.Parse, for every command line of FlagSets
InitFlags ==
    /\ mainPc = "flags"
    /\ exited = FALSE
    /\ fatal = ""
    /\ termboxOpen = FALSE
    /\ lastEv = NoEvent
    /\ kbCmd = <<>>
    /\ wideVideo = FALSE
    /\ videoMode = ""
    /\ homeSet = FALSE
    /\ picsSaved = <<>>
    /\ numPics = 0
    /\ termSize = <<0, 0>>
    /\ startLog = <<>>
    /\ flags \in FlagSets
    /\ useJoystick = FALSE
    /\ fields = [k \in FieldSet |-> ""]
    /\ fieldGen = [k \in FieldSet |-> 0]
    /\ mu = MuFree
    /\ ingPc = "off"
    /\ ingIdx = 0
    /\ tmpFD = FD0
    /\ nSnap = 0
    /\ fdLogging = FALSE
    /\ fdRows = <<>>
    /\ fdLogErrs = 0
    /\ fdFile = <<>>
    /\ rdPc = [r \in Readers |-> "idle"]
    /\ obs = [r \in Readers |-> {}]
    /\ painted = [k \in FieldSet |-> ""]
    /\ labels = {}
    /\ paintIdx = [r \in Readers |-> 0]
    /\ stale = [k \in FieldSet |-> 0]
    /\ noWriteSinceClear = TRUE
    /\ VideoStart
    /\ JsIdle

\* readJoystick(test) entered: with -jstest right after setupJoystick, else
\* as the goroutine of a connected session
InitJs ==
    /\ jsTest \in BOOLEAN
    /\ jsCfg \in JsConfigs
    /\ mainPc = IF jsTest THEN "readJoystick" ELSE "poll"
    /\ exited = FALSE
    /\ fatal = ""
    /\ termboxOpen = ~jsTest
    /\ lastEv = NoEvent
    /\ kbCmd = IF jsTest THEN <<>> ELSE ExtendedInfoRequests
    /\ wideVideo = FALSE
    /\ videoMode = ""
    /\ homeSet = FALSE
    /\ picsSaved = <<>>
    /\ numPics = 0
    /\ termSize = IF jsTest THEN <<0, 0>> ELSE <<80, 24>>
    /\ startLog = IF jsTest THEN <<>> ELSE StartupSteps(TRUE)
    /\ flags \in {f \in FlagSets :
                     /\ f.jsid = 0 /\ f.jstest = jsTest /\ ~f.fdlog
                     /\ f.jstype \in {"DualShock4", "HotasX"}
                     /\ ConfigOf(f.jstype, f.goos) = jsCfg}
    /\ useJoystick = TRUE
    /\ fields = IF jsTest THEN [k \in FieldSet |-> ""] ELSE InitialValues
    /\ fieldGen = [k \in FieldSet |-> 0]
    /\ mu = MuFree
    /\ ingPc = IF jsTest THEN "off" ELSE "recv"
    /\ ingIdx = 0
    /\ tmpFD = FD0
    /\ nSnap = 0
    /\ fdLogging = FALSE
    /\ fdRows = <<>>
    /\ fdLogErrs = 0
    /\ fdFile = <<>>
    /\ rdPc = [r \in Readers |-> IF r = "render" /\ ~jsTest THEN "rlock" ELSE "idle"]
    /\ obs = [r \in Readers |-> IF r = "main" /\ ~jsTest THEN {0} ELSE {}]
    /\ painted = [k \in FieldSet |->
                    IF jsTest THEN "" ELSE PaintedText(InitialValues, k)]
    /\ labels = IF jsTest THEN {} ELSE FieldSet
    /\ paintIdx = [r \in Readers |-> IF r = "main" /\ ~jsTest THEN NumPrints ELSE 0]
    /\ stale = [k \in FieldSet |-> 0]
    /\ noWriteSinceClear = TRUE
    /\ VideoStart
    /\ jsPc = "read"
    /\ jsState = [AxisData |-> ZeroAxes, Buttons |-> 0]
    /\ jsErr = FALSE
    /\ prevState = [AxisData |-> ZeroAxes, Buttons |-> 0]
    /\ sm = [Lx |-> 0, Ly |-> 0, Rx |-> 0, Ry |-> 0]
    /\ stickLast = <<>>
    /\ btnHist = <<>>
    /\ cmdHist = <<>>
    /\ stickCount = 0
    /\ jsLog = <<>>
    /\ jsSleepNs = 0
    /\ lastGoodButtons = 0

(***************************************************************************)
(* Specifications.                                                         *)
(***************************************************************************)
StartupNext ==
    \/ MainCheckTermSize
    \/ MainSetup
    \/ MainConnect
    \/ MainStartIngest
    \/ MainStartRender
    \/ MainRequest
    \/ MainStartJoystick

\* what main does after the keyboard loop
ExitNext ==
    \/ MainSavePics
    \/ ReturnNext

\* what main does after the keyboard loop of a session without a flight log
ExitNoLogNext ==
    \/ MainSavePics
    \/ MainDeferTermboxClose
    \/ MainReturn

\* a session under way without a flight log: the first snapshot (FDb) has
\* been applied and the render loop has painted it and slept; main waits for
\* a key
InitRegistry ==
    /\ mainPc = "poll"
    /\ exited = FALSE
    /\ fatal = ""
    /\ termboxOpen = TRUE
    /\ lastEv = NoEvent
    /\ kbCmd = ExtendedInfoRequests
    /\ wideVideo = FALSE
    /\ videoMode = ""
    /\ homeSet = FALSE
    /\ picsSaved = <<>>
    /\ numPics = 0
    /\ termSize = <<80, 24>>
    /\ startLog = StartupSteps(FALSE)
    /\ useJoystick = FALSE
    /\ fields = updateFields(InitialValues, FDb, FALSE)
    /\ fieldGen = [k \in FieldSet |-> IF k \in UpdatedSet THEN 1 ELSE 0]
    /\ mu = MuFree
    /\ ingPc = "recv"
    /\ ingIdx = Len(UpdateOrder)
    /\ tmpFD = FDb
    /\ nSnap = 1
    /\ fdLogging = FALSE
    /\ flags = PlainFlags(FALSE)
    /\ fdRows = <<>>
    /\ fdLogErrs = 0
    /\ fdFile = <<>>
    /\ rdPc = [r \in Readers |-> IF r = "render" THEN "rlock" ELSE "idle"]
    /\ obs = [r \in Readers |-> IF r = "main" THEN {0} ELSE {1}]
    /\ painted = [k \in FieldSet |->
                    PaintedText(updateFields(InitialValues, FDb, FALSE), k)]
    /\ labels = FieldSet
    /\ paintIdx = [r \in Readers |-> NumPrints]
    /\ stale = [k \in FieldSet |-> 0]
    /\ noWriteSinceClear = FALSE
    /\ VideoStart
    /\ JsIdle

\* the registry: ingestion of a snapshot (FDa) whose values are shorter than
\* those on the screen, the render loop, and the operator redrawing at any
\* moment, the render loop's paint loop included
RegistryEvents == {KeyEv("", "r")}

NextRegistry ==
    \/ MainRedraw(RegistryEvents)
    \/ IngestRecv({FDa})
    \/ IngestLock
    \/ IngestLockAcquire
    \/ IngestStep
    \/ IngestLog
    \/ IngestUnlock
    \/ \E r \in Readers : ReaderRLock(r)
    \/ \E r \in Readers : ReaderPaint(r)
    \/ \E r \in Readers : ReaderRUnlock(r)
    \/ \E r \in Readers : ReaderFlush(r)
    \/ RenderSleep

SpecRegistry == InitRegistry /\ [][NextRegistry]_vars

\* the registry with no key pressed: ingestion and the render loop, and no
\* manual redraw
NextRender ==
    \/ StartupNext
    \/ IngestRecv(SessionSnapshots)
    \/ IngestLock
    \/ IngestLockAcquire
    \/ IngestStep
    \/ IngestLog
    \/ IngestUnlock
    \/ \E r \in Readers : ReaderRLock(r)
    \/ \E r \in Readers : ReaderPaint(r)
    \/ \E r \in Readers : ReaderRUnlock(r)
    \/ \E r \in Readers : ReaderFlush(r)
    \/ RenderSleep

SpecRender == Init /\ [][NextRender]_vars

\* the keyboard loop and the video relay (no flight log, no telemetry, the render
\* loop is left out); the operator quits, starts video or hits an unbound key
VideoEvents == {KeyEv("KeyEsc", ""), KeyEv("", "v"), KeyEv("", "z")}

NextVideo ==
    \/ StartupNext
    \/ MainQuit(VideoEvents)
    \/ ExitNoLogNext
    \/ MainCommand(VideoEvents)
    \/ MainStartVideo(VideoEvents)
    \/ ReaderRLock("main")
    \/ ReaderPaint("main")
    \/ ReaderRUnlock("main")
    \/ ReaderFlush("main")
    \/ \E i \in Relays : VideoReassert(i)
    \/ \E i \in Relays : VideoSleep(i)
    \/ \E i \in Relays : VideoChunkArrives(i)
    \/ \E i \in Relays : VideoRecv(i)
    \/ \E i \in Relays : VideoWrite(i)

SpecVideo == InitNoLog /\ [][NextVideo]_vars

\* a session with or without a flight log: start-up, telemetry ingestion, the
\* operator starting the video relay once or quitting, and the relay's
\* byte-copy loop (the render loop and the start-video loop are left out)
LogEvents == {KeyEv("KeyEsc", ""), KeyEv("", "v")}

NextLog ==
    \/ StartupNext
    \/ MainQuit(LogEvents)
    \/ ExitNext
    \/ nRelay = 0 /\ MainStartVideo(LogEvents)
    \/ ReaderRLock("main")
    \/ ReaderPaint("main")
    \/ ReaderRUnlock("main")
    \/ ReaderFlush("main")
    \/ IngestRecv({FDa})
    \/ IngestLock
    \/ IngestLockAcquire
    \/ IngestStep
    \/ IngestLog
    \/ IngestUnlock
    \/ \E i \in Relays : VideoChunkArrives(i)
    \/ \E i \in Relays : VideoRecv(i)
    \/ \E i \in Relays : VideoWrite(i)

SpecLog == Init /\ [][NextLog]_vars

\* a session in which pictures are taken: the operator takes pictures, hits
\* an unbound key, redraws or quits, and the drone service receives pictures
PicEvents ==
    {KeyEv("KeyEsc", ""), KeyEv("", "q"), KeyEv("", "f"), KeyEv("", "r"),
     KeyEv("", "z")}

NextPics ==
    \/ StartupNext
    \/ MainQuit(PicEvents)
    \/ ExitNext
    \/ MainRedraw(PicEvents)
    \/ MainCommand(PicEvents)
    \/ PictureArrives
    \/ ReaderRLock("main")
    \/ ReaderPaint("main")
    \/ ReaderRUnlock("main")
    \/ ReaderFlush("main")

SpecPics == Init /\ [][NextPics]_vars

\* the keyboard loop with every event of Events and the relay started at most
\* once (the relay's start-video loop is left out)
NextKeys ==
    \/ StartupNext
    \/ MainQuit(Events)
    \/ ExitNext
    \/ MainRedraw(Events)
    \/ MainCommand(Events)
    \/ nRelay = 0 /\ MainStartVideo(Events)
    \/ ReaderRLock("main")
    \/ ReaderPaint("main")
    \/ ReaderRUnlock("main")
    \/ ReaderFlush("main")
    \/ \E i \in Relays : VideoChunkArrives(i)
    \/ \E i \in Relays : VideoRecv(i)
    \/ \E i \in Relays : VideoWrite(i)

SpecKeys == Init /\ [][NextKeys]_vars

\* the keyboard loop and the relay of a session in which the operator starts
\* video once: the keys are 'v' while no relay runs, and Esc
NextReassert ==
    \/ StartupNext
    \/ MainQuit(VideoEvents)
    \/ ExitNext
    \/ nRelay = 0 /\ MainStartVideo(VideoEvents)
    \/ ReaderRLock("main")
    \/ ReaderPaint("main")
    \/ ReaderRUnlock("main")
    \/ ReaderFlush("main")
    \/ \E i \in Relays : VideoReassert(i)
    \/ \E i \in Relays : VideoSleep(i)
    \/ \E i \in Relays : VideoChunkArrives(i)
    \/ \E i \in Relays : VideoRecv(i)
    \/ \E i \in Relays : VideoWrite(i)

SpecReassert == Init /\ [][NextReassert]_vars

\* the goroutines of the relay are scheduled: a start-video loop that can
\* take its next step takes it
SpecReassertFair ==
    /\ SpecReassert
    /\ \A i \in Relays : WF_vars(VideoReassert(i)) /\ WF_vars(VideoSleep(i))

\* the joystick loop, followed for MaxCycles cycles with the sticks centred
JsCentred == {ZeroAxes}

\* the whole of func main for every command line of FlagSets: the flags, the
\* start-up, the joystick loop with a button held, and the operator quitting
NextFlags ==
    \/ MainSetupJoystick
    \/ MainJsTest
    \/ MainTermboxInit
    \/ StartupNext
    \/ MainQuit({KeyEv("KeyEsc", "")})
    \/ ExitNext
    \/ ReaderRLock("main")
    \/ ReaderPaint("main")
    \/ ReaderRUnlock("main")
    \/ ReaderFlush("main")
    \/ JsRead(JsCentred, {1}, {FALSE})
    \/ JsReadNoDevice
    \/ JsSend
    \/ JsButtons
    \/ JsSleep

SpecFlags == InitFlags /\ [][NextFlags]_vars

NextJs ==
    \/ JsRead(JsCentred, ButtonMasks, BOOLEAN)
    \/ JsSend
    \/ JsButtons
    \/ JsSleep

SpecJs == InitJs /\ [][NextJs]_vars

\* the joystick loop with every button pressed alone, several pressed
\* together, and the sticks moved, followed for MaxPadCycles cycles of
\* reads that succeed
PadBits == 0..9

PadMasks ==
    {0} \cup {Pow2(b) : b \in PadBits}
        \cup {Pow2(0) + Pow2(4), Pow2(2) + Pow2(4) + Pow2(6), Pow2(10) - 1}

PadAxes ==
    {ZeroAxes,
     [a \in PhysAxes |-> <<2000, -2000, 1999, -32767, 32767>>[a + 1]],
     [a \in PhysAxes |-> <<-1999, 32767, -2001, 2001, -2000>>[a + 1]]}

NextPad ==
    \/ Len(btnHist) < MaxPadCycles /\ JsRead(PadAxes, PadMasks, {FALSE})
    \/ JsSend
    \/ JsButtons
    \/ JsSleep

SpecPad == InitJs /\ [][NextPad]_vars

\* the joystick loop with the sticks moved and no button touched
NextAxis ==
    \/ JsRead(AxisArrays, {0}, {FALSE})
    \/ JsSend
    \/ JsButtons
    \/ JsSleep

SpecAxis == InitJs /\ [][NextAxis]_vars

\* one snapshot, drawn from a wide set, applied to the registry of a running
\* session while the render loop repaints
SpeedSamples == {-200, -182, -181, -4, 0, 3, 4, 181, 182, 256, 1000}

HeightSamples == {-5, 0, 7, 15, 100, 32767}

WideSnapshots ==
    {[FDa EXCEPT !.NorthSpeed = n, !.EastSpeed = e] :
        n \in SpeedSamples, e \in SpeedSamples}
      \cup {[FDb EXCEPT !.Height = h] : h \in HeightSamples}
      \cup {[FDb EXCEPT !.SSID = "TELLO-0123456789ABCDEF"]}
      \cup {[FDa EXCEPT !.BatteryLow = TRUE, !.BatteryCritical = TRUE,
                        !.BatteryState = TRUE, !.DownVisualState = TRUE,
                        !.OverTemp = TRUE, !.OnGround = TRUE, !.DroneHover = TRUE]}

InitUpdate ==
    /\ mainPc = "poll"
    /\ exited = FALSE
    /\ fatal = ""
    /\ termboxOpen = TRUE
    /\ lastEv = NoEvent
    /\ kbCmd = ExtendedInfoRequests
    /\ wideVideo = FALSE
    /\ videoMode = ""
    /\ homeSet \in BOOLEAN
    /\ picsSaved = <<>>
    /\ numPics = 0
    /\ termSize = <<80, 24>>
    /\ startLog = StartupSteps(FALSE)
    /\ useJoystick = FALSE
    /\ fields = InitialValues
    /\ fieldGen = [k \in FieldSet |-> 0]
    /\ mu = MuFree
    /\ ingPc = "lock"
    /\ ingIdx = 0
    /\ tmpFD \in WideSnapshots
    /\ nSnap = 1
    /\ fdLogging \in BOOLEAN
    /\ flags = PlainFlags(fdLogging)
    /\ fdRows = IF fdLogging THEN <<Headers>> ELSE <<>>
    /\ fdLogErrs = 0
    /\ fdFile = <<>>
    /\ rdPc = [r \in Readers |-> IF r = "render" THEN "rlock" ELSE "idle"]
    /\ obs = [r \in Readers |-> IF r = "main" THEN {0} ELSE {}]
    /\ painted = [k \in FieldSet |-> PaintedText(InitialValues, k)]
    /\ labels = FieldSet
    /\ paintIdx = [r \in Readers |-> IF r = "main" THEN NumPrints ELSE 0]
    /\ stale = [k \in FieldSet |-> 0]
    /\ noWriteSinceClear = TRUE
    /\ VideoStart
    /\ JsIdle

NextUpdate ==
    \/ IngestLock
    \/ IngestLockAcquire
    \/ IngestStep
    \/ IngestLog
    \/ IngestUnlock
    \/ ReaderRLock("render")
    \/ ReaderPaint("render")
    \/ ReaderRUnlock("render")
    \/ ReaderFlush("render")
    \/ RenderSleep

SpecUpdate == InitUpdate /\ [][NextUpdate]_vars

\* a running session without a joystick and without a flight log, just after
\* the loops were started: the ingestion loop waits for its first snapshot,
\* the render loop is about to repaint
InitLoops ==
    /\ mainPc = "poll"
    /\ exited = FALSE
    /\ fatal = ""
    /\ termboxOpen = TRUE
    /\ lastEv = NoEvent
    /\ kbCmd = ExtendedInfoRequests
    /\ wideVideo = FALSE
    /\ videoMode = ""
    /\ homeSet = FALSE
    /\ picsSaved = <<>>
    /\ numPics = 0
    /\ termSize = <<80, 24>>
    /\ startLog = StartupSteps(FALSE)
    /\ useJoystick = FALSE
    /\ fields = InitialValues
    /\ fieldGen = [k \in FieldSet |-> 0]
    /\ mu = MuFree
    /\ ingPc = "recv"
    /\ ingIdx = 0
    /\ tmpFD = FD0
    /\ nSnap = 0
    /\ fdLogging = FALSE
    /\ flags = PlainFlags(FALSE)
    /\ fdRows = <<>>
    /\ fdLogErrs = 0
    /\ fdFile = <<>>
    /\ rdPc = [r \in Readers |-> IF r = "render" THEN "rlock" ELSE "idle"]
    /\ obs = [r \in Readers |-> IF r = "main" THEN {0} ELSE {}]
    /\ painted = [k \in FieldSet |-> PaintedText(InitialValues, k)]
    /\ labels = FieldSet
    /\ paintIdx = [r \in Readers |-> IF r = "main" THEN NumPrints ELSE 0]
    /\ stale = [k \in FieldSet |-> 0]
    /\ noWriteSinceClear = TRUE
    /\ VideoStart
    /\ JsIdle

\* the ingestion loop and the render loop side by side, until the operator
\* quits
NextLoops ==
    \/ MainQuit({KeyEv("KeyEsc", "")})
    \/ ExitNoLogNext
    \/ IngestRecv(SessionSnapshots)
    \/ IngestLock
    \/ IngestLockAcquire
    \/ IngestStep
    \/ IngestLog
    \/ IngestUnlock
    \/ ReaderRLock("render")
    \/ ReaderPaint("render")
    \/ ReaderRUnlock("render")
    \/ ReaderFlush("render")
    \/ RenderSleep

SpecLoops == InitLoops /\ [][NextLoops]_vars

\* the two goroutines are scheduled: a step of the ingestion loop after its
\* receive, and a step of the render loop's displayDataFields or its sleep,
\* that can be taken is taken; the arrival of a snapshot and the operator's
\* quit are not forced
SpecLoopsFair ==
    /\ SpecLoops
    /\ WF_vars(IngestLock) /\ WF_vars(IngestLockAcquire) /\ WF_vars(IngestStep)
    /\ WF_vars(IngestLog) /\ WF_vars(IngestUnlock)
    /\ WF_vars(ReaderRLock("render")) /\ WF_vars(ReaderPaint("render"))
    /\ WF_vars(ReaderRUnlock("render")) /\ WF_vars(ReaderFlush("render"))
    /\ WF_vars(RenderSleep)

(***************************************************************************)
(* The claims.                                                             *)
(***************************************************************************)
ReaderInside(r) == rdPc[r] \in {"paint", "runlock"}
WriterInside == ingPc \in {"update", "unlock"}

\* C1: a reader of the registry (the render loop or a manual redraw) is never
\* inside displayDataFields' locked section while updateFields is under way,
\* and the values one pass paints were never written part by one snapshot and
\* part by another.
C1_ReadersSeeWholeUpdates ==
    /\ \A r \in Readers : ReaderInside(r) => ~WriterInside
    /\ \A r \in Readers : Cardinality(obs[r]) <= 1

\* the render loop has painted the first snapshot's values and still holds
\* the read lock while the writer waits with the second snapshot
C1_Witness ==
    /\ rdPc["render"] = "runlock"
    /\ obs["render"] = {1}
    /\ ingPc = "lockwait"
    /\ nSnap = 2

BoundButtons == {"btnL1", "btnL2", "btnSquare", "btnTriangle", "btnX"}

\* the bit of button b in the bitmask of finished cycle i (0 before the first)
HistBit(b, i) == IF i = 0 THEN FALSE ELSE BitSet(btnHist[i], jsCfg.buttons[b])

\* how often cycle i dispatched button b's command
Dispatches(b, i) ==
    Cardinality({j \in 1..Len(cmdHist[i]) : cmdHist[i][j] = ButtonCommand(b)})

RECURSIVE TotalDispatches(_, _)
TotalDispatches(b, n) ==
    IF n = 0 THEN 0 ELSE Dispatches(b, n) + TotalDispatches(b, n - 1)

HeldPattern(b) ==
    /\ Len(btnHist) = 5
    /\ ~HistBit(b, 1) /\ HistBit(b, 2) /\ HistBit(b, 3) /\ ~HistBit(b, 4) /\ HistBit(b, 5)

\* C2: outside diagnostic mode a bound button's command is dispatched in a
\* poll cycle exactly when the button's bit is 1 in that cycle's bitmask and 0
\* in the previous cycle's, and then once; over the five cycles 0,1,1,0,1 that
\* is twice, in the second and the fifth cycle.
C2_DispatchOnPressEdgeOnly ==
    ~jsTest =>
      \A b \in BoundButtons :
        /\ \A i \in 1..Len(cmdHist) :
              Dispatches(b, i) = IF HistBit(b, i) /\ ~HistBit(b, i - 1) THEN 1 ELSE 0
        /\ HeldPattern(b) =>
              /\ TotalDispatches(b, 5) = 2
              /\ Dispatches(b, 2) = 1
              /\ Dispatches(b, 5) = 1

\* five cycles with a bound button's bit going 0,1,1,0,1 and two dispatches
C2_Witness ==
    /\ ~jsTest
    /\ jsPc = "sleep"
    /\ \E b \in BoundButtons : HeldPattern(b) /\ TotalDispatches(b, 5) = 2

Magnitude(x) == IF x < 0 THEN 0 - x ELSE x

\* what the dead zone is meant to give for a raw reading
Filtered(raw, negate) ==
    IF Magnitude(raw) < deadZone THEN 0 ELSE IF negate THEN 0 - raw ELSE raw

\* C3: every component of the stick message is 0 when its raw reading's
\* magnitude is below deadZone and otherwise the raw value (X axes) or the
\* negated raw value (Y axes), for every reading of the 16-bit range.
C3_DeadZoneFilter ==
    /\ sm.Lx = Filtered(jsState.AxisData[jsCfg.axes.axLeftX], FALSE)
    /\ sm.Ly = Filtered(jsState.AxisData[jsCfg.axes.axLeftY], TRUE)
    /\ sm.Rx = Filtered(jsState.AxisData[jsCfg.axes.axRightX], FALSE)
    /\ sm.Ry = Filtered(jsState.AxisData[jsCfg.axes.axRightY], TRUE)

\* C4: once updateFields has assigned it, the Derived Speed field is
\* sqrt(north^2 + east^2), the squares taken exactly, rounded to one decimal
\* and followed by "m/s".
C4_DerivedSpeed ==
    fieldGen["fDerivedSpeed"] = nSnap /\ nSnap > 0 =>
      fields["fDerivedSpeed"] =
        FmtSqrt1(tmpFD.NorthSpeed * tmpFD.NorthSpeed
                   + tmpFD.EastSpeed * tmpFD.EastSpeed) \o "m/s"

\* C5: the text displayDataFields paints for a field is exactly as long as
\* the field is wide.
C5_PaintedTextHasFieldWidth ==
    \A r \in Readers :
      rdPc[r] = "runlock" =>
        \A k \in FieldSet : Len(painted[k]) = setupFields[k].w

\* C6: startVideo issues the start-video request at once, and from then on
\* each relay's loop issues it again and again for as long as the process
\* lives, whether or not video chunks arrive.
C6_StartVideoReasserted ==
    /\ [](nRelay > 0 => nStartVideo >= 1)
    /\ \A i \in Relays :
          \/ [](vrPc[i] = "off")
          \/ <>exited
          \/ []<><<VideoReassert(i)>>_vars

\* the request has been issued MaxStartVideo times although no chunk ever
\* arrived
C6_Witness ==
    /\ nRelay = 1
    /\ vrPc[1] = "sleep"
    /\ nStartVideo = MaxStartVideo
    /\ vchan[1] = <<>> /\ vrecv[1] = <<>>

\* C7: what a byte-copy loop has written to its player is a prefix of what it
\* has received; a failed write ends the process with that chunk unwritten,
\* and nothing is written once the process has ended.
C7_WrittenIsPrefixOfReceived ==
    /\ [](\A i \in Relays : IsPrefix(vwritten[i], vrecv[i]))
    /\ [](fatal = "playerWrite" =>
            exited /\ \E i \in Relays : Len(vwritten[i]) < Len(vrecv[i]))
    /\ [][exited => vwritten' = vwritten]_vars

\* the first chunk was written, the write of the second failed
C7_Witness ==
    /\ fatal = "playerWrite"
    /\ vrecv[1] = <<1, 2>>
    /\ vwritten[1] = <<1>>

\* C8: at most one player, one start-video loop and one byte-copy loop exist.
C8_OneVideoRelay ==
    /\ nRelay <= 1
    /\ Cardinality({i \in Relays : vrPc[i] # "off"}) <= 1
    /\ Cardinality({i \in Relays : vcPc[i] # "off"}) <= 1

\* C9: a failed write of a flight-data row ends the process.
C9_LogWriteFailureIsFatal == fdLogErrs > 0 => exited

\* C10: every fatal exit after termbox.Init happens with the terminal
\* restored (termbox.Close called).
C10_FatalExitRestoresTerminal == fatal # "" => ~termboxOpen

\* the keyboard loop has been left by break mainloop
LoopEnded ==
    mainPc \in {"savePics", "deferClose", "deferFlush", "flushing", "return", "done"}

StartVideoFailures == StartVideoOutcomes \ {"ok"}

\* C11 as stated: the keyboard loop is left exactly when the event handled is
\* Esc or 'q'; after every other event the loop waits for the next one, and
\* while it runs the process is ended by nothing an event's handler does
\* (only by the byte-copy loop's failed write).
C11_QuitIsSoleLoopExit ==
    /\ LoopEnded <=> IsQuit(lastEv)
    /\ (mainPc \in {"poll", "redraw"} /\ exited) => fatal = "playerWrite"

\* C11: the keyboard loop is left exactly when the event handled is Esc or
\* 'q'; after every other event the loop waits for the next one, except that
\* a 'v' whose startVideo fails ends the process with log.Fatalf; the only
\* other end of the process while the loop runs is the byte-copy loop's
\* failed write.
C11_QuitOrFatalEndsLoop ==
    /\ LoopEnded <=> IsQuit(lastEv)
    /\ (mainPc \in {"poll", "redraw"} /\ exited) =>
          \/ fatal = "playerWrite"
          \/ IsVideo(lastEv) /\ fatal \in StartVideoFailures

\* 'q' was handled after video had been started and a command issued
C11_Witness ==
    /\ mainPc = "savePics"
    /\ IsChar(lastEv, "q")
    /\ nRelay = 1
    /\ wideVideo

\* main has got past the keyboard loop and the saving of the pictures
PastSave == LoopEnded /\ mainPc # "savePics"

\* C12: SaveAllPics is called at most once, only after the keyboard loop
\* has ended with a quit, under the name tello_pic_<time> and never with a
\* picture count of zero; it is called in the one step that follows the
\* loop, there exactly if NumPics() is above zero, and in no other step, so
\* that at session end the pictures have been persisted once if and only if
\* NumPics() was above zero.
C12_PicsSavedOnceAtEnd ==
    /\ [](Len(picsSaved) <= 1)
    /\ [](picsSaved # <<>> => PastSave /\ IsQuit(lastEv) /\ numPics > 0)
    /\ [](\A i \in 1..Len(picsSaved) :
             picsSaved[i] \in {"tello_pic_" \o now : now \in Timestamps})
    /\ [][IF mainPc = "savePics" /\ mainPc' # "savePics"
          THEN /\ picsSaved = <<>>
               /\ Len(picsSaved') = 1 <=> numPics > 0
          ELSE picsSaved' = picsSaved]_vars

\* the session ended with pictures captured, and they were saved
C12_Witness ==
    /\ mainPc = "done"
    /\ numPics = 2
    /\ Len(picsSaved) = 1

\* the one command the key help gives a key, by the state after the event
HelpCommand(ev) ==
    CASE IsKey(ev, "KeySpace")      -> <<"Hover">>
      [] IsKey(ev, "KeyArrowUp")    -> <<"Forward", 33>>
      [] IsKey(ev, "KeyArrowDown")  -> <<"Backward", 33>>
      [] IsKey(ev, "KeyArrowLeft")  -> <<"Left", 33>>
      [] IsKey(ev, "KeyArrowRight") -> <<"Right", 33>>
      [] IsChar(ev, "w") -> <<"Up", 66>>
      [] IsChar(ev, "a") -> <<"TurnLeft", 66>>
      [] IsChar(ev, "s") -> <<"Down", 66>>
      [] IsChar(ev, "d") -> <<"TurnRight", 66>>
      [] IsChar(ev, "b") -> <<"Bounce">>
      [] IsChar(ev, "t") -> <<"TakeOff">>
      [] IsChar(ev, "o") -> <<"ThrowTakeOff">>
      [] IsChar(ev, "l") -> <<"Land">>
      [] IsChar(ev, "p") -> <<"PalmLand">>
      [] IsChar(ev, "f") -> <<"TakePicture">>
      [] IsChar(ev, "0") -> <<"StartSmartVideo", "Sv360">>
      [] IsChar(ev, "1") -> <<"ForwardFlip">>
      [] IsChar(ev, "2") -> <<"BackFlip">>
      [] IsChar(ev, "3") -> <<"LeftFlip">>
      [] IsChar(ev, "4") -> <<"RightFlip">>
      [] IsChar(ev, "+") -> <<"SetFastMode">>
      [] IsChar(ev, "-") -> <<"SetSlowMode">>
      [] IsChar(ev, "=") -> IF wideVideo THEN <<"SetVideoWide">> ELSE <<"SetVideoNormal">>
      [] IsKey(ev, "KeyHome") -> IF kbCmd = <<<<"SetHome">>>> THEN <<"SetHome">>
                                 ELSE <<"AutoFlyToXY", 0, 0>>

\* the events the key help binds to a drone command
HelpBound ==
    {KeyEv(k, "") : k \in {"KeySpace", "KeyArrowUp", "KeyArrowDown", "KeyArrowLeft",
                           "KeyArrowRight", "KeyHome"}}
      \cup {KeyEv("", c) : c \in {"w", "a", "s", "d", "b", "t", "o", "l", "p", "f",
                                  "0", "1", "2", "3", "4", "+", "-", "="}}

\* the event is bound to nothing at all
Unbound(ev) == ~IsQuit(ev) /\ ~IsRedraw(ev) /\ ~IsVideo(ev) /\ ev \notin HelpBound

\* C13: after a key event the loop has done exactly one thing: left the loop
\* (Esc, 'q'), redrawn ('r', Ctrl-L), run startVideo ('v'), issued the one
\* command of the key help, or nothing; never two commands; and an event bound
\* to nothing changes nothing.
C13_OneOutcomePerEvent ==
    /\ [](lastEv # NoEvent =>
            /\ Len(kbCmd) <= 1
            /\ IsQuit(lastEv) <=> LoopEnded
            /\ (IsQuit(lastEv) \/ IsRedraw(lastEv) \/ IsVideo(lastEv)) => kbCmd = <<>>
            /\ lastEv \in HelpBound => kbCmd = <<HelpCommand(lastEv)>>
            /\ (IsKey(lastEv, "KeyHome") /\ kbCmd = <<<<"AutoFlyToXY", 0, 0>>>>)
                  => homeSet
            /\ Unbound(lastEv) => kbCmd = <<>>)
    /\ [][(lastEv' # lastEv /\ Unbound(lastEv')) =>
            UNCHANGED <<mainPc, exited, fatal, termboxOpen, wideVideo, videoMode, homeSet,
                        picsSaved, numPics, regVars, rdVars, vidVars, jsVars>>]_vars
    /\ [][(lastEv' # lastEv /\ ~IsVideo(lastEv')) => UNCHANGED vidVars]_vars
    /\ [][(lastEv' # lastEv /\ ~IsRedraw(lastEv')) => UNCHANGED painted]_vars
    /\ [][(lastEv' # lastEv /\ ~IsChar(lastEv', "=")) => UNCHANGED wideVideo]_vars

\* '=' was handled with wide video on: SetVideoNormal, and wide video is off
C13_Witness ==
    /\ IsChar(lastEv, "=")
    /\ kbCmd = <<<<"SetVideoNormal">>>>
    /\ ~wideVideo
    /\ nRelay = 1

\* a step of the main thread inside a manual redraw
RedrawStep ==
    /\ mainPc = "redraw" \/ mainPc' = "redraw"
    /\ mainPc' # mainPc \/ rdPc'["main"] # rdPc["main"]

\* C14: a manual redraw leaves a screen that is a function of the registry
\* alone (each field shows its padded value and nothing older), so that a
\* second redraw over an unchanged registry shows the same; and it changes
\* no registry value, not wideVideo, and issues no drone command.
C14_RedrawIdempotent ==
    /\ [][(mainPc = "redraw" /\ rdPc["main"] = "paint" /\ rdPc'["main"] = "runlock") =>
            /\ painted' = [k \in FieldSet |-> PaintedText(fields, k)]
            /\ noWriteSinceClear => \A k \in FieldSet : stale'[k] = 0]_vars
    /\ [][RedrawStep =>
            /\ UNCHANGED <<fields, fieldGen, wideVideo, videoMode, homeSet, picsSaved, vidVars,
                           jsVars, fdRows>>
            /\ kbCmd' = <<>>]_vars

\* the redraw has repainted the values of the second snapshot, which are
\* shorter than those of the first, and no update came in between
C14_Witness ==
    /\ mainPc = "redraw"
    /\ rdPc["main"] = "runlock"
    /\ nSnap = 2
    /\ noWriteSinceClear
    /\ tmpFD = FDa
    /\ fields["fPosX"] = "0.000000"
    /\ \A k \in FieldSet : stale[k] = 0

\* updateFields has run to its end at least once and is not running
UpdateDone == nSnap >= 1 /\ ingPc \in {"unlock", "recv"}

\* the boolean-backed fields and the flag of the snapshot behind each
BoolFields ==
    {<<"fBattLow", "BatteryLow">>, <<"fBattCrit", "BatteryCritical">>,
     <<"fBattState", "BatteryState">>, <<"fGroundVis", "DownVisualState">>,
     <<"fOvertemp", "OverTemp">>, <<"fOnGround", "OnGround">>,
     <<"fHovering", "DroneHover">>, <<"fFlying", "Flying">>}

\* C15 as stated: after an update every boolean-backed field holds the
\* present-token when its flag is true and a two-character absent-token when
\* its flag is false.
C15_TwoCharacterAbsentToken ==
    UpdateDone =>
      \A bf \in BoolFields :
        IF tmpFD[bf[2]] THEN fields[bf[1]] = "Y" ELSE Len(fields[bf[1]]) = 2

\* C15: after an update every boolean-backed field holds "Y" when its flag is
\* true and the one-character "N" when its flag is false, never a third value.
C15_BoolFieldsYOrN ==
    UpdateDone =>
      \A bf \in BoolFields :
        fields[bf[1]] = (IF tmpFD[bf[2]] THEN "Y" ELSE "N")

\* an update with every flag set has been applied
C15_Witness ==
    /\ UpdateDone
    /\ \A bf \in BoolFields : tmpFD[bf[2]] /\ fields[bf[1]] = "Y"

\* the claim's text of a raw height: tenths of a metre, one decimal, "m"
HeightText(h) ==
    (IF h < 0 THEN "-" ELSE "") \o NatToStr(Magnitude(h) \div 10) \o "."
        \o DigitChar[(Magnitude(h) % 10) + 1] \o "m"

\* C16: after an update the Height field is the raw height divided by 10,
\* with one decimal and the suffix "m"; 15 gives "1.5m".
C16_HeightInMetres ==
    UpdateDone =>
      /\ fields["fHeight"] = HeightText(tmpFD.Height)
      /\ tmpFD.Height = 15 => fields["fHeight"] = "1.5m"

\* a raw height of 15 has been applied
C16_Witness ==
    /\ UpdateDone
    /\ tmpFD.Height = 15
    /\ fields["fHeight"] = "1.5m"
    /\ rdPc["render"] = "runlock"
    /\ painted["fHeight"] = "1.5m "

\* C17: with logging enabled the log is the header row followed by one row
\* per snapshot consumed, the last one that of the snapshot applied last;
\* with logging not enabled no row is written.
C17_OneLogRowPerSnapshot ==
    /\ ~fdLogging => fdRows = <<>>
    /\ fdLogging =>
          /\ fdRows # <<>> /\ fdRows[1] = <<"Time", "X", "Y", "Z", "Yaw", "FDHeight">>
          /\ ingPc \in {"off", "unlock", "recv"} => Len(fdRows) = 1 + nSnap
          /\ UpdateDone => fdRows[Len(fdRows)] = LogLine(tmpFD)

\* termbox.Size() has been read by checkTermSize
SizeChecked == termSize # <<0, 0>>

\* C18: main gets past checkTermSize exactly when the terminal has at least
\* 80 columns and 24 rows; otherwise the process has ended with the
\* terminal-size message, the terminal closed, nothing connected and no loop
\* started; and the size is read once.
C18_TermSizeGate ==
    /\ [](~SizeChecked => mainPc = "checkTermSize" /\ ~exited)
    /\ [](SizeChecked =>
            (mainPc # "checkTermSize" <=> (termSize[1] >= 80 /\ termSize[2] >= 24)))
    /\ [](SizeChecked /\ mainPc = "checkTermSize" =>
            /\ exited /\ fatal = "termSize" /\ ~termboxOpen
            /\ ingPc = "off" /\ rdPc = [r \in Readers |-> "idle"]
            /\ kbCmd = <<>> /\ jsPc = "off" /\ lastEv = NoEvent)
    /\ [][SizeChecked => termSize' = termSize]_vars

\* a terminal of 80 columns and 23 rows was refused
C18_Witness ==
    /\ termSize = <<80, 23>>
    /\ exited
    /\ fatal = "termSize"

\* -jsid and -jstype are both on the command line
BothGiven == flags.jsid # 999 /\ flags.jstype # ""

\* C19: readJoystick is entered only when -jsid and -jstype are both given;
\* on every other command line the session runs (the joystick flags end no
\* process) and the device is never read, no stick message is sent and no
\* joystick command is issued.
C19_JoystickOnlyWithIdAndType ==
    /\ jsPc # "off" => BothGiven
    /\ useJoystick => BothGiven
    /\ ~BothGiven =>
          /\ btnHist = <<>> /\ stickLast = <<>> /\ cmdHist = <<>>
          /\ fatal \notin {"jsNoType", "panic"}

\* C20: a read that returns an error is logged and ends neither the loop nor
\* the process: the cycle goes on with the stick message and the button
\* tests, the loop sleeps, and the device is read again.
C20_ReadErrorNotFatal ==
    /\ [](jsErr => jsLog # <<>> /\ Head(jsLog) = "Error reading joystick")
    /\ [](jsErr => ~exited /\ fatal = "")
    /\ [][(jsPc = "read" /\ jsPc' # "read" /\ jsErr') =>
            jsPc' = (IF jsTest THEN "buttons" ELSE "send")]_vars
    /\ [](jsErr /\ jsPc = "send" => ENABLED JsSend)
    /\ [](jsErr /\ jsPc = "buttons" => ENABLED JsButtons)
    /\ [](jsErr /\ jsPc = "sleep" => ENABLED JsSleep)
    /\ [](jsErr /\ jsPc = "read" /\ Len(btnHist) < MaxCycles =>
            ENABLED JsRead(JsCentred, ButtonMasks, BOOLEAN))

\* the buttons whose bit went from 0 to 1 in the last finished cycle, in the
\* order readJoystick tests them
PressedInLastCycle ==
    SelectSeq(ButtonOrder,
              LAMBDA b : /\ HistBit(b, Len(btnHist))
                         /\ ~HistBit(b, Len(btnHist) - 1))

\* C21: in the diagnostic mode no stick message is ever sent and no drone
\* command is ever issued, whatever the axes and the buttons do; a finished
\* cycle has logged its filtered stick values and its button presses.
C21_DiagnosticOnlyLogs ==
    jsTest =>
      /\ stickLast = <<>>
      /\ stickCount = 0
      /\ kbCmd = <<>>
      /\ \A i \in 1..Len(cmdHist) : cmdHist[i] = <<>>
      /\ jsPc = "sleep" =>
            jsLog = ReadLog(jsErr)
                      \o <<<<"JS", sm.Lx, sm.Ly, sm.Rx, sm.Ry>>>>
                      \o PressLog(PressedInLastCycle)

\* a diagnostic cycle with a stick off centre and three bound buttons pressed
\* together has ended
C21_Witness ==
    /\ jsTest
    /\ jsPc = "sleep"
    /\ sm.Lx # 0
    /\ Len(PressedInLastCycle) >= 3
    /\ Len(jsLog) >= 4

InLog(step) == \E i \in 1..Len(startLog) : startLog[i] = step

\* C22: the start-up steps are taken in program order, each at most once,
\* the joystick loop only when there is a joystick, and the keyboard loop
\* last; the goroutines run only once they are started; after a failed
\* connect the process has ended with none of the later steps taken.
C22_StartupOrder ==
    /\ \E js \in BOOLEAN : IsPrefix(startLog, StartupSteps(js))
    /\ InLog("readJoystick") => useJoystick
    /\ InLog("mainloop") /\ useJoystick => InLog("readJoystick")
    /\ ingPc # "off" => InLog("ingestion")
    /\ rdPc["render"] # "idle" => InLog("render")
    /\ jsPc # "off" /\ ~jsTest => InLog("readJoystick")
    /\ lastEv # NoEvent => InLog("mainloop")
    /\ InLog("GetVersion") /\ lastEv = NoEvent => kbCmd = ExtendedInfoRequests
    /\ fatal = "connect" =>
          /\ exited
          /\ startLog = <<"checkTermSize", "setupFields", "displayStaticFields",
                          "displayDataFields", "ControlConnectDefault">>
          /\ ingPc = "off" /\ rdPc["render"] = "idle" /\ jsPc = "off"
          /\ kbCmd = <<>> /\ lastEv = NoEvent

\* a session with a joystick has taken every start-up step and waits for
\* the first key
C22_Witness ==
    /\ startLog = StartupSteps(TRUE)
    /\ mainPc = "poll"
    /\ jsPc # "off"
    /\ ingPc = "recv"
    /\ ~exited

\* C23: with no manual redraw, when the render loop has repainted, every
\* field's region shows the field's current value padded to the field's
\* width, and no cell to its right keeps a character of an earlier, longer
\* value.
C23_NoStaleCharacters ==
    rdPc["render"] = "runlock" =>
      \A k \in FieldSet :
        /\ painted[k] = PaintedText(fields, k)
        /\ stale[k] = 0

\* setupFields has run
FieldsSetUp == mainPc \notin {"checkTermSize", "setupFields"}

\* C24: once setupFields has run every registry entry has a label, a positive
\* width and a placeholder value, which it shows until an update; and when
\* updateFields has made its assignments for a snapshot, every entry's value
\* was assigned from that snapshot.
C24_EveryFieldSetUpAndUpdated ==
    /\ FieldsSetUp =>
          \A k \in FieldSet :
            /\ setupFields[k] # ZeroField
            /\ setupFields[k].lab # ""
            /\ setupFields[k].w > 0
            /\ setupFields[k].value # ""
            /\ fieldGen[k] = 0 => fields[k] = setupFields[k].value
    /\ ingPc = "unlock" => \A k \in FieldSet : fieldGen[k] = nSnap

\* the bound buttons whose bit went from 0 to 1 in finished cycle i
EdgeButtons(i) == {b \in BoundButtons : HistBit(b, i) /\ ~HistBit(b, i - 1)}

\* the button bitmask of the last finished cycle (0 before the first)
LastMask == IF btnHist = <<>> THEN 0 ELSE btnHist[Len(btnHist)]

\* C25: outside the diagnostic mode a cycle in which several bound buttons
\* go from 0 to 1 dispatches each one's command exactly once and nothing
\* else; the previous-state bitmask still is the previous cycle's while the
\* buttons are compared and changes only in the step that ends the
\* comparisons, to the bitmask just compared.
C25_NoPressEdgeLost ==
    /\ [](~jsTest =>
            \A i \in 1..Len(cmdHist) :
              /\ Len(cmdHist[i]) = Cardinality(EdgeButtons(i))
              /\ \A b \in EdgeButtons(i) : Dispatches(b, i) = 1)
    /\ [](prevState.Buttons = LastMask)
    /\ [][prevState' # prevState =>
            /\ jsPc = "buttons" /\ jsPc' = "sleep"
            /\ prevState' = jsState
            /\ Len(cmdHist') = Len(cmdHist) + 1]_vars

\* a cycle in which three bound buttons were pressed together has dispatched
\* three commands
C25_Witness ==
    /\ ~jsTest
    /\ jsPc = "sleep"
    /\ Cardinality(EdgeButtons(Len(btnHist))) = 3
    /\ Len(cmdHist[Len(cmdHist)]) = 3

\* C26: once the joystick loop has slept, the duration it slept for is the
\* render loop's period, updatePeriodMs milliseconds.
C26_SamePeriod ==
    jsSleepNs # 0 =>
      /\ jsSleepNs = RenderSleepNs
      /\ jsSleepNs = updatePeriodMs * Millisecond

\* C27: outside the diagnostic mode every poll cycle sends one stick message
\* and no more, the message holds the four components the cycle computed
\* from its reading, and the button tests of a cycle are reached only by
\* the step that completes the cycle's send.
C27_OneStickMessagePerCycle ==
    /\ [](~jsTest =>
            stickCount = Len(btnHist) + (IF jsPc = "buttons" THEN 1 ELSE 0))
    /\ [](~jsTest /\ jsPc \in {"buttons", "sleep"} =>
            /\ stickLast = <<sm>>
            /\ sm = StickMessage(jsCfg, jsState.AxisData))
    /\ [][~jsTest /\ jsPc # "buttons" /\ jsPc' = "buttons" =>
            /\ jsPc = "send"
            /\ stickCount' = stickCount + 1
            /\ stickLast' = <<sm>>
            /\ UNCHANGED <<prevState, btnHist, cmdHist>>]_vars
    /\ [][~jsTest /\ Len(cmdHist') > Len(cmdHist) =>
            /\ stickCount = Len(cmdHist) + 1
            /\ UNCHANGED <<stickCount, stickLast>>]_vars

\* the second cycle of a session has sent its message, with a stick off
\* centre, and its buttons are about to be tested
C27_Witness ==
    /\ ~jsTest
    /\ jsPc = "buttons"
    /\ stickCount = 2
    /\ Len(btnHist) = 1
    /\ stickLast # <<>> /\ stickLast[1].Rx # 0

\* C28: wideVideo is false until the first key; it changes only in the
\* keyboard loop's handling of '=', which issues SetVideoWide when it is
\* false and SetVideoNormal when it is true and then negates it; a video-mode
\* command is issued by nothing else; so wideVideo is true exactly when the
\* video-mode command issued last was SetVideoWide.
C28_WideVideoFlipFlop ==
    /\ [](lastEv = NoEvent => ~wideVideo /\ videoMode = "")
    /\ [](wideVideo <=> videoMode = "SetVideoWide")
    /\ [](~wideVideo => videoMode \in {"", "SetVideoNormal"})
    /\ [][wideVideo' # wideVideo =>
            /\ mainPc = "poll"
            /\ IsChar(lastEv', "=")
            /\ kbCmd' = <<<<IF wideVideo THEN "SetVideoNormal" ELSE "SetVideoWide">>>>
            /\ videoMode' = kbCmd'[1][1]]_vars
    /\ [][videoMode' # videoMode => wideVideo' = ~wideVideo]_vars

\* '=' was pressed twice: wide, then normal again
C28_Witness ==
    /\ ~wideVideo
    /\ videoMode = "SetVideoNormal"
    /\ IsChar(lastEv, "=")
    /\ kbCmd = <<<<"SetVideoNormal">>>>

\* C29: the ingestion loop holds the write lock only while it applies the
\* one snapshot it has received: never while it waits for the next snapshot;
\* the lock is taken only after a receive, and a receive follows a Lock only
\* after the Unlock.
C29_WriteLockSpansOneUpdate ==
    /\ [](mu.writer <=> ingPc \in {"update", "unlock"})
    /\ [](ingPc \in {"off", "recv", "lock"} => ~mu.writer /\ ~mu.pending)
    /\ [][mu'.writer /\ ~mu.writer =>
            /\ ingPc = "lockwait"
            /\ nSnap >= 1 /\ UNCHANGED <<nSnap, tmpFD>>]_vars
    /\ [][~mu'.writer /\ mu.writer =>
            /\ ingPc = "unlock" /\ ingPc' = "recv"
            /\ ingIdx = Len(UpdateOrder)
            /\ UNCHANGED <<fields, fieldGen, nSnap>>]_vars
    /\ [][nSnap' # nSnap => ~mu.writer /\ ~mu.pending /\ ingPc = "recv"]_vars

\* the second snapshot has been received, after the first was applied under
\* the lock and the lock given back
C29_Witness ==
    /\ nSnap = 2
    /\ ingPc = "lock"
    /\ ~mu.writer
    /\ \A k \in UpdatedSet : fieldGen[k] = 1

\* the six buttons readJoystick tests
PadButtons == {ButtonOrder[i] : i \in 1..Len(ButtonOrder)}

\* printJoystickHelp: the command the help text gives for each button ("" for
\* Circle, which has none)
PadHelp(b) ==
    CASE b = "btnTriangle" -> "TakeOff"
      [] b = "btnX"        -> "Land"
      [] b = "btnCircle"   -> ""
      [] b = "btnSquare"   -> "TakePicture"
      [] b = "btnL1"       -> "Bounce"
      [] b = "btnL2"       -> "PalmLand"

\* the commands the help text gives for the press edges of finished cycle i
HelpCommands(i) ==
    LET pressed == SelectSeq(ButtonOrder,
                             LAMBDA b : /\ HistBit(b, i) /\ ~HistBit(b, i - 1)
                                        /\ PadHelp(b) # "")
    IN  [j \in 1..Len(pressed) |-> PadHelp(pressed[j])]

\* the physical bits that went from 0 to 1 in finished cycle i
NewBits(i) ==
    {bit \in PadBits : /\ BitSet(btnHist[i], bit)
                       /\ ~(i > 1 /\ BitSet(btnHist[i - 1], bit))}

\* C30: a press edge dispatches the command the help text gives for the
\* button (none for Circle); in each configuration the six buttons are on
\* six different bits and the four stick axes on four different axis
\* indices; a cycle in which one physical bit goes from 0 to 1 dispatches at
\* most one command.
C30_ButtonMapping ==
    /\ jsCfg \in JsConfigs
    /\ \A cfg \in JsConfigs \cup {jsCfg} :
          /\ \A b, c \in PadButtons : b # c => cfg.buttons[b] # cfg.buttons[c]
          /\ \A a, c \in Axes : a # c => cfg.axes[a] # cfg.axes[c]
    /\ ~jsTest =>
          \A i \in 1..Len(cmdHist) :
            /\ cmdHist[i] = HelpCommands(i)
            /\ Cardinality(NewBits(i)) = 1 => Len(cmdHist[i]) <= 1

\* with the Hotas configuration the press of bit 7 alone, Triangle, has
\* dispatched TakeOff and nothing else
C30_Witness ==
    /\ ~jsTest
    /\ jsCfg = tflightHotasXConfig
    /\ jsPc = "sleep"
    /\ NewBits(Len(btnHist)) = {7}
    /\ cmdHist[Len(cmdHist)] = <<"TakeOff">>

\* C31: after each telemetry update the Home Pos field reads "Set" when
\* IsHomeSet() returns true and "Unset" when it returns false, the condition
\* under which the Home key flies home.
C31_HomeFieldAgrees ==
    UpdateDone =>
      /\ fields["fHome"] = (IF homeSet THEN "Set" ELSE "Unset")
      /\ (homeSet <=> KeyCommands(KeyEv("KeyHome", ""), wideVideo, homeSet)
                        = <<<<"AutoFlyToXY", 0, 0>>>>)

\* the number of the update batch that was completed last (0: none yet, the
\* registry holds the placeholders)
LastApplied == IF ingPc \in {"lock", "lockwait"} THEN nSnap - 1 ELSE nSnap

\* reader r makes the tbprint call that paints a field's value
PaintsValue(r) ==
    /\ rdPc[r] = "paint"
    /\ paintIdx[r] % 2 = 1
    /\ paintIdx'[r] = paintIdx[r] + 1

\* the field whose value reader r's next tbprint call paints
ValueField(r) == FieldKeys[(paintIdx[r] \div 2) + 1]

\* C32: every repaint pass of displayDataFields paints values that all come
\* from one update batch, the one completed last (or the placeholders before
\* the first): in each step in which a pass paints a value, the field was
\* written by that batch, the text put on the screen is that field's value,
\* and the pass has painted no value of another batch; when the pass ends it
\* has painted that batch and no other.
C32_RepaintPaintsOneBatch ==
    [][\A r \in Readers :
         /\ PaintsValue(r) =>
              /\ painted'[ValueField(r)] = PaintedText(fields, ValueField(r))
              /\ ValueField(r) \in UpdatedSet => fieldGen[ValueField(r)] = LastApplied
              /\ obs'[r] \subseteq {LastApplied}
         /\ (rdPc[r] = "paint" /\ rdPc'[r] = "runlock") => obs'[r] = {LastApplied}]_vars

\* the render loop has painted the second batch, whose values differ from
\* the first's, and a manual redraw has painted it too
C32_Witness ==
    /\ rdPc["render"] = "runlock"
    /\ obs["render"] = {2}
    /\ obs["main"] = {2}
    /\ \E k \in UpdatedSet : painted[k] # PaintedText(InitialValues, k)

C34_NeitherLoopStarves ==
    /\ (ingPc \in {"lock", "lockwait", "update", "unlock"})
          ~> (exited \/ ingPc = "recv")
    /\ <>[](\/ exited
            \/ /\ ingPc = "recv"
               /\ \A k \in UpdatedSet :
                     fieldGen[k] = nSnap /\ painted[k] = PaintedText(fields, k))

\* the writer has announced itself with the second snapshot while the render
\* loop, which has painted the first, holds the read lock
C34_Witness ==
    /\ ingPc = "lockwait"
    /\ mu.pending /\ mu.readers > 0
    /\ nSnap = 2
    /\ rdPc["render"] = "runlock"
    /\ \A k \in UpdatedSet : fieldGen[k] = 1 /\ painted[k] = PaintedText(fields, k)

\* a manual redraw has cleared the screen and has not yet flushed its repaint
RedrawUnderWay == mainPc = "redraw" /\ rdPc["main"] \in {"rlock", "paint", "runlock", "flush"}

\* the render loop is between the start of its painting and its flush
RenderPainting == rdPc["render"] \in {"paint", "runlock", "flush"}

\* C35: at most one thread at a time paints the terminal: a manual redraw is
\* never under way while a render-loop repaint is, and the render loop never
\* flushes a screen that the manual redraw has cleared and not yet finished
\* repainting.
C35_OnePainterAtATime ==
    /\ [](~(RedrawUnderWay /\ RenderPainting))
    /\ [][rdPc["render"] = "flush" /\ rdPc'["render"] = "sleep" => ~RedrawUnderWay]_vars

\* C36: every flight-data row appended during the session (the rows after the
\* header) has been flushed to the log file by the time the process ends, on
\* the normal quit path and on each fatal exit.
C36_RowsFlushedAtExit ==
    exited =>
      \A i \in 2..Len(fdRows) : i <= Len(fdFile) /\ fdFile[i] = fdRows[i]
====
